---- MODULE Spec2Model ----
(***************************************************************************)
(* Verification model of the lead scraper (scrapper.js, slm-client.js).    *)
(*                                                                         *)
(* JavaScript strings are sequences of one-character strings.  JavaScript  *)
(* values are tagged records [t, s, n]: t is the type, s the characters of *)
(* a string, n the number (or 1/0 for true/false).                         *)
(***************************************************************************)
EXTENDS Integers, Sequences, FiniteSets, TLC

VARIABLES
  \* saveToExcel: the destination file and the last call
  fileExists, sheet, data, added, skipped, rerun,
  \* createBusinessId on a record and on a case/whitespace variant of it
  recA, recB, idA, idB, edits,
  \* validateData and qualifyLead on one record
  qItem, validateErrors, qualifyErrors, qPc,
  \* callSLM and enrichWithSLM on one record and one service outcome
  slmItem, outcome, response, enriched, slmPc,
  \* one record of allResults through the stages of main
  lead, shouldExtractEmails, stage,
  \* the page.goto calls of the record's detail task
  nav,
  \* main's persistence of enrichedResults
  enrichedResults, mongoConnected, mongoIdx, upserted, persistPc,
  \* the Business collection, whether mongoose drops keys outside dataSchema,
  \* the run (first or repeated) and whether a findOneAndUpdate rejected
  store, strictSchema, pass, rejected,
  \* main's acquisition: the sources selected, scrapeGoogleMaps and
  \* scrapeYellowPages, and what each has done so far
  useGoogleMaps, useYellowPages, maxResults, acqPc, allResults,
  gmLeft, apiResults, gmTrace,
  allListings, currentPage, hasMorePages, consecutiveFailures, ypTrace,
  \* autoScrollGoogleMaps: its parameter, its locals and the counts taken
  scrollMax, previousCount, scrollRetries, currentCount, counts, gmScrollPc,
  \* autoScrollYellowPages: its parameter, its locals, the promise, and the
  \* history of its cycles
  ypScrollMax, previousResultCount, noChangeCount, totalScrolls, ypScrollPc,
  stopReason, overlap, unresponsiveCycles, unchangedRun, decidedRun,
  bursts, timersFired, resolveCalls,
  \* main after acquisition: the number of records, the options, the
  \* position, enrichedResults.length, whether saveToExcel ran, and the
  \* stages in which a call rejected
  runLeads, runEmails, runConnected, runPc, runIdx, classified, merged, failed,
  \* the detail tasks under detailLimit and Promise.all, the email loop
  taskCount, poolEmails, detailTasks, completionOrder, poolResults,
  emailTasks, poolIdx, poolPc,
  \* email extraction: the addresses in the page text and in its mailto
  \* links, and the email stored on the record
  bodyEmails, mailtoEmails, storedEmail, emailPc

excelVars == <<fileExists, sheet, data, added, skipped, rerun>>
fpVars == <<recA, recB, idA, idB, edits>>
qualifyVars == <<qItem, validateErrors, qualifyErrors, qPc>>
slmVars == <<slmItem, outcome, response, enriched, slmPc>>
recordVars == <<lead, shouldExtractEmails, stage, nav>>
persistVars ==
  <<enrichedResults, mongoConnected, mongoIdx, upserted, persistPc,
    store, strictSchema, pass, rejected>>
acqVars ==
  <<useGoogleMaps, useYellowPages, maxResults, acqPc, allResults,
    gmLeft, apiResults, gmTrace,
    allListings, currentPage, hasMorePages, consecutiveFailures, ypTrace>>
gmScrollVars ==
  <<scrollMax, previousCount, scrollRetries, currentCount, counts, gmScrollPc>>
ypScrollVars ==
  <<ypScrollMax, previousResultCount, noChangeCount, totalScrolls, ypScrollPc,
    stopReason, overlap, unresponsiveCycles, unchangedRun, decidedRun,
    bursts, timersFired, resolveCalls>>
runVars ==
  <<runLeads, runEmails, runConnected, runPc, runIdx, classified, merged, failed>>
poolVars ==
  <<taskCount, poolEmails, detailTasks, completionOrder, poolResults,
    emailTasks, poolIdx, poolPc>>
emailVars == <<bodyEmails, mailtoEmails, storedEmail, emailPc>>

(***************************************************************************)
(* Bounds of the model.                                                    *)
(***************************************************************************)
MaxBatch == 2
MaxRows == 3
MaxEdits == 2
MaxFieldLen == 3
MaxTextLen == 3
MaxPasses == 2
MaxTokens == 2
MaxResponses == 2
MaxListings == 2
MaxResults == 2
MaxCycles == 5
MaxOverlap == 2
MaxLeads == 3
MaxTasks == 4
MaxCandidates == 2

(***************************************************************************)
(* JavaScript values.                                                      *)
(***************************************************************************)
JStr(s) == [t |-> "string", s |-> s, n |-> 0]
JNum(k) == [t |-> "number", s |-> <<>>, n |-> k]
JBool(b) == [t |-> "boolean", s |-> <<>>, n |-> IF b THEN 1 ELSE 0]
JNull == [t |-> "null", s |-> <<>>, n |-> 0]
JUndef == [t |-> "undefined", s |-> <<>>, n |-> 0]
\* an object or array value; its content is not modelled
JObj == [t |-> "object", s |-> <<>>, n |-> 0]

\* ToBoolean: "", 0, false, null and undefined are falsy
Truthy(v) ==
  CASE v.t = "string" -> Len(v.s) > 0
    [] v.t = "number" -> v.n # 0
    [] v.t = "boolean" -> v.n = 1
    [] v.t = "object" -> TRUE
    [] OTHER -> FALSE

\* a || b
Or(a, b) == IF Truthy(a) THEN a ELSE b

DigitChars == <<"0", "1", "2", "3", "4", "5", "6", "7", "8", "9">>

RECURSIVE NatStr(_)
NatStr(k) ==
  IF k < 10 THEN <<DigitChars[k + 1]>>
  ELSE NatStr(k \div 10) \o <<DigitChars[(k % 10) + 1]>>

\* the characters a value contributes to a template literal `${v}`
ToStr(v) ==
  CASE v.t = "string" -> v.s
    [] v.t = "number" -> IF v.n < 0 THEN <<"-">> \o NatStr(0 - v.n) ELSE NatStr(v.n)
    [] v.t = "boolean" -> IF v.n = 1 THEN <<"t", "r", "u", "e">> ELSE <<"f", "a", "l", "s", "e">>
    [] v.t = "null" -> <<"n", "u", "l", "l">>
    [] OTHER -> <<"u", "n", "d", "e", "f", "i", "n", "e", "d">>

(***************************************************************************)
(* String functions.                                                       *)
(***************************************************************************)
Whitespace == {" ", "\t", "\n"}

LowerOf ==
  [c \in {"A", "B", "C", "X", "J"} |->
     CASE c = "A" -> "a" [] c = "B" -> "b" [] c = "C" -> "c"
       [] c = "X" -> "x" [] c = "J" -> "j"]
UpperOf ==
  [c \in {"a", "b", "c", "x", "j"} |->
     CASE c = "a" -> "A" [] c = "b" -> "B" [] c = "c" -> "C"
       [] c = "x" -> "X" [] c = "j" -> "J"]

\* String.prototype.toLowerCase
toLowerCase(s) ==
  [i \in 1..Len(s) |-> IF s[i] \in DOMAIN LowerOf THEN LowerOf[s[i]] ELSE s[i]]

IsWs(c) == c \in Whitespace
NotWs(c) == c \notin Whitespace

\* s.replace(/\s+/g, ''): every whitespace run is removed
StripWhitespace(s) == SelectSeq(s, NotWs)

\* s.replace(/\s+/, ''): without the g flag only the first run is removed
StripFirstWhitespaceRun(s) ==
  IF \A i \in 1..Len(s) : NotWs(s[i]) THEN s
  ELSE LET first == CHOOSE i \in 1..Len(s) :
                      IsWs(s[i]) /\ \A j \in 1..(i - 1) : NotWs(s[j])
           after == CHOOSE k \in (first + 1)..(Len(s) + 1) :
                      /\ \A j \in first..(k - 1) : IsWs(s[j])
                      /\ (k = Len(s) + 1 \/ NotWs(s[k]))
       IN SubSeq(s, 1, first - 1) \o SubSeq(s, after, Len(s))

(***************************************************************************)
(* saveToExcel.                                                            *)
(***************************************************************************)
createBusinessId_FirstRunOnly(item) ==
  StripFirstWhitespaceRun(toLowerCase(
    ToStr(Or(item.name, JStr(<<>>))) \o <<"-">> \o
    ToStr(Or(item.phone, JStr(<<>>))) \o <<"-">> \o
    ToStr(Or(item.address, JStr(<<>>)))))

createBusinessId(item) ==
  StripWhitespace(toLowerCase(
    ToStr(Or(item.name, JStr(<<>>))) \o <<"-">> \o
    ToStr(Or(item.phone, JStr(<<>>))) \o <<"-">> \o
    ToStr(Or(item.address, JStr(<<>>)))))

\* xlsx.utils.json_to_sheet: a null or undefined value writes no cell
JsonToSheet(rows) ==
  [i \in 1..Len(rows) |->
     [f \in DOMAIN rows[i] |->
        IF rows[i][f].t \in {"null", "undefined"} THEN JUndef ELSE rows[i][f]]]

HasCell(row) == \E f \in DOMAIN row : row[f].t # "undefined"

\* xlsx.utils.sheet_to_json: a row without any cell is skipped
SheetToJson(ws) == SelectSeq(ws, HasCell)

ExistingData(exists, ws) == IF exists THEN SheetToJson(ws) ELSE <<>>

BusinessIds(rows) == {createBusinessId(rows[i]) : i \in 1..Len(rows)}

UniqueNewData_KeepAll(existingData, d) == d

UniqueNewData(existingData, d) ==
  LET existingBusinessIds == BusinessIds(existingData)
      IsNew(item) == createBusinessId(item) \notin existingBusinessIds
  IN SelectSeq(d, IsNew)

AllData_NewOnly(existingData, uniqueNewData) == uniqueNewData

AllData(existingData, uniqueNewData) == existingData \o uniqueNewData

S(str) == JStr(str)

\* rows a batch or a file can hold: two spellings of one business, and two
\* records of another that differ in how the missing phone is stored
ExcelRows ==
  { [name |-> S(<<"A", "b">>), phone |-> S(<<"1">>), address |-> S(<<"x">>),
     email |-> S(<<"e">>)],
    [name |-> S(<<"a", " ", "b">>), phone |-> S(<<"1", " ">>), address |-> S(<<"X">>),
     email |-> JNull],
    [name |-> S(<<"c", "c">>), phone |-> JNull, address |-> S(<<>>),
     email |-> S(<<"e">>)],
    [name |-> S(<<"C", "c">>), phone |-> S(<<>>), address |-> S(<<"\t">>),
     email |-> S(<<"f">>)] }

SeqsUpTo(set, k) == UNION {[1..m -> set] : m \in 0..k}

ExcelInit ==
  /\ fileExists \in BOOLEAN
  /\ sheet \in IF fileExists THEN {JsonToSheet(r) : r \in SeqsUpTo(ExcelRows, MaxRows)}
               ELSE {<<>>}
  /\ data = <<>>
  /\ added = 0
  /\ skipped = 0
  /\ rerun = "none"

\* rerun records whether the call repeats the batch of the call before it
SaveToExcel(d) ==
  LET existingData == ExistingData(fileExists, sheet)
      uniqueNewData == UniqueNewData(existingData, d)
      allData == AllData(existingData, uniqueNewData)
  IN /\ Len(allData) <= MaxRows
     /\ sheet' = JsonToSheet(allData)
     /\ fileExists' = TRUE
     /\ data' = d
     /\ added' = Len(uniqueNewData)
     /\ skipped' = Len(d) - Len(uniqueNewData)
     /\ rerun' = IF rerun # "none" /\ d = data THEN "repeat" ELSE "first"

(***************************************************************************)
(* createBusinessId under changes of case and whitespace.                  *)
(***************************************************************************)
FpFields == {"name", "phone", "address"}

FpRecords ==
  [name : {S(<<"A", "b">>), S(<<"j", " ">>), JUndef},
   phone : {S(<<"1">>), S(<<>>), JNull},
   address : {S(<<"x", "X">>), S(<<"\t">>)}]

FpIdle ==
  /\ recA = [name |-> JUndef, phone |-> JUndef, address |-> JUndef]
  /\ recB = recA
  /\ idA = <<>>
  /\ idB = <<>>
  /\ edits = 0

FpInit ==
  /\ recA \in FpRecords
  /\ recB = recA
  /\ idA = createBusinessId(recA)
  /\ idB = createBusinessId(recA)
  /\ edits = 0

ToggleCase(c) ==
  IF c \in DOMAIN LowerOf THEN LowerOf[c]
  ELSE IF c \in DOMAIN UpperOf THEN UpperOf[c] ELSE c

Edited(f, str) ==
  /\ edits < MaxEdits
  /\ recB' = [recB EXCEPT ![f] = JStr(str)]
  /\ idB' = createBusinessId(recB')
  /\ edits' = edits + 1
  /\ UNCHANGED <<recA, idA>>

\* one letter of one field changes case
ChangeCase ==
  \E f \in FpFields :
    /\ recB[f].t = "string"
    /\ \E i \in 1..Len(recB[f].s) :
         /\ ToggleCase(recB[f].s[i]) # recB[f].s[i]
         /\ Edited(f, [recB[f].s EXCEPT ![i] = ToggleCase(recB[f].s[i])])

\* one whitespace character is inserted into one field
InsertWhitespace ==
  \E f \in FpFields :
    /\ recB[f].t = "string"
    /\ Len(recB[f].s) < MaxFieldLen
    /\ \E i \in 0..Len(recB[f].s), w \in Whitespace :
         Edited(f, SubSeq(recB[f].s, 1, i) \o <<w>> \o
                   SubSeq(recB[f].s, i + 1, Len(recB[f].s)))

\* one whitespace character is deleted from one field
DeleteWhitespace ==
  \E f \in FpFields :
    /\ recB[f].t = "string"
    /\ \E i \in 1..Len(recB[f].s) :
         /\ IsWs(recB[f].s[i])
         /\ Edited(f, SubSeq(recB[f].s, 1, i - 1) \o
                      SubSeq(recB[f].s, i + 1, Len(recB[f].s)))

(***************************************************************************)
(* validateData and qualifyLead.                                           *)
(***************************************************************************)
\* v.length < k: the length of a value that is no string is undefined, and
\* undefined < k is false
LengthBelow(v, k) == v.t = "string" /\ Len(v.s) < k

IsDigit(c) == c \in {"0", "1", "2", "3", "4", "5", "6", "7", "8", "9"}

\* ToNumber(s) < 0 for a string: an optional sign and digits, trimmed
StringBelowZero(s) ==
  LET body == StripWhitespace(s)
  IN /\ Len(body) >= 2
     /\ body[1] = "-"
     /\ \A i \in 2..Len(body) : IsDigit(body[i])
     /\ \E i \in 2..Len(body) : body[i] # "0"

\* v < 0: null converts to 0, undefined and objects to NaN
BelowZero(v) ==
  CASE v.t = "number" -> v.n < 0
    [] v.t = "string" -> StringBelowZero(v.s)
    [] OTHER -> FALSE

validateData_MinLengthOne(item) ==
  IF ~Truthy(item.name) \/ LengthBelow(item.name, 1)
  THEN <<"Invalid name">> ELSE <<>>

validateData(item) ==
  IF ~Truthy(item.name) \/ LengthBelow(item.name, 2)
  THEN <<"Invalid name">> ELSE <<>>

qualifyLead(item) ==
  (IF ~Truthy(item.email) /\ ~Truthy(item.phone) THEN <<"No contact info">> ELSE <<>>)
  \o (IF BelowZero(item.rating) THEN <<"Low rating">> ELSE <<>>)

QualifyItems ==
  [name : {JUndef, JNull, S(<<>>), S(<<"A">>), S(<<"J", "o">>), S(<<" ", " ">>)},
   email : {S(<<>>), JNull, S(<<"e">>)},
   phone : {S(<<>>), S(<<"5">>)},
   rating : {JUndef, JNum(0 - 1), JNum(0), JNum(4), JNum(6), S(<<>>), S(<<"-", "1">>)}]

QualifyInit ==
  /\ qItem \in QualifyItems
  /\ validateErrors = <<>>
  /\ qualifyErrors = <<>>
  /\ qPc = "start"

ValidateData ==
  /\ qPc = "start"
  /\ validateErrors' = validateData(qItem)
  /\ qPc' = "validated"
  /\ UNCHANGED <<qItem, qualifyErrors>>

QualifyLead ==
  /\ qPc = "validated"
  /\ qualifyErrors' = qualifyLead(qItem)
  /\ qPc' = "done"
  /\ UNCHANGED <<qItem, validateErrors>>

QualifyIdle ==
  /\ qItem = [name |-> JUndef, email |-> JUndef, phone |-> JUndef, rating |-> JUndef]
  /\ validateErrors = <<>>
  /\ qualifyErrors = <<>>
  /\ qPc = "off"

(***************************************************************************)
(* Records (LeadRecord objects) and object spread.                         *)
(* An object is a function on ItemKeys; a key it does not have is JUndef.  *)
(* "extra" stands for any key that is no field of a lead.                  *)
(***************************************************************************)
ItemKeys ==
  {"name", "phone", "address", "category", "website", "email", "description",
   "rating", "ratingCount", "source", "detailUrl", "detailsNeeded",
   "isRelevant", "cleanCategory", "summary",
   "originalCategory", "originalDescription", "extra"}

EmptyObject == [k \in ItemKeys |-> JUndef]

\* { ...a, ...b }
Spread(a, b) == [k \in ItemKeys |-> IF b[k].t # "undefined" THEN b[k] ELSE a[k]]

(***************************************************************************)
(* slm-client.js: extractJSON and callSLM.                                 *)
(* A service text is a sequence of characters.  Besides the characters     *)
(* "{", "}", ",", "x" and whitespace, one element may stand for a chunk of *)
(* JSON text: "k:" is a key with its colon, and an element of              *)
(* MemberLexemes is a comma-separated list of key-value members.           *)
(***************************************************************************)
SummaryLimit == 500

MemberLexemes == {"mFull", "mRel", "mPhone", "mCat"}

Members(lex) ==
  CASE lex = "mFull" ->
         [EmptyObject EXCEPT !["isRelevant"] = JBool(TRUE),
                             !["cleanCategory"] = S(<<"F", "o", "o", "d">>),
                             !["summary"] = S(<<"o", "k">>)]
    [] lex = "mRel" ->
         [EmptyObject EXCEPT !["isRelevant"] = S(<<"y", "e", "s">>)]
    [] lex = "mPhone" ->
         [EmptyObject EXCEPT !["phone"] = S(<<"9">>),
                             !["cleanCategory"] = JNull]
    [] lex = "mCat" ->
         [EmptyObject EXCEPT !["category"] = S(<<"Z">>),
                             !["originalCategory"] = S(<<"Z">>),
                             !["description"] = S(<<>>)]

\* the first index at or after i that holds no whitespace (Len(s) + 1 if none)
SkipWs(s, i) ==
  IF \E j \in i..Len(s) : NotWs(s[j])
  THEN CHOOSE j \in i..Len(s) : NotWs(s[j]) /\ \A m \in i..(j - 1) : IsWs(s[m])
  ELSE Len(s) + 1

ParseFail == [ok |-> FALSE, next |-> 0, obj |-> EmptyObject]

\* JSON.parse of an object that starts at s[i]: "{" members "}" where the
\* members are separated by "," and a member is a member chunk or a key
\* followed by an object
RECURSIVE ParseObject(_, _), ParseMembers(_, _, _)
ParseObject(s, i) ==
  IF i > Len(s) \/ s[i] # "{" THEN ParseFail
  ELSE LET j == SkipWs(s, i + 1)
       IN IF j <= Len(s) /\ s[j] = "}"
          THEN [ok |-> TRUE, next |-> j + 1, obj |-> EmptyObject]
          ELSE ParseMembers(s, j, EmptyObject)

ParseMembers(s, i, acc) ==
  IF i > Len(s) THEN ParseFail
  ELSE LET member ==
             IF s[i] \in MemberLexemes
             THEN [ok |-> TRUE, next |-> i + 1, obj |-> Spread(acc, Members(s[i]))]
             ELSE IF s[i] = "k:"
             THEN LET v == ParseObject(s, SkipWs(s, i + 1))
                  IN [ok |-> v.ok, next |-> v.next,
                      obj |-> [acc EXCEPT !["extra"] = JObj]]
             ELSE ParseFail
           j == SkipWs(s, member.next)
       IN IF ~member.ok \/ j > Len(s) THEN ParseFail
          ELSE IF s[j] = "}" THEN [ok |-> TRUE, next |-> j + 1, obj |-> member.obj]
          ELSE IF s[j] = "," THEN ParseMembers(s, SkipWs(s, j + 1), member.obj)
          ELSE ParseFail

\* JSON.parse(text): one object, whitespace around it allowed
JsonParse(s) ==
  LET r == ParseObject(s, SkipWs(s, 1))
  IN IF r.ok /\ SkipWs(s, r.next) > Len(s) THEN r ELSE ParseFail

\* raw.match(/\{[\s\S]*\}/): from the first "{" to the last "}" after it
BraceMatch(raw) ==
  LET opens == {i \in 1..Len(raw) : raw[i] = "{"}
      closes == {i \in 1..Len(raw) : raw[i] = "}"}
  IN IF opens = {} \/ closes = {} THEN [found |-> FALSE, text |-> <<>>]
     ELSE LET first == CHOOSE i \in opens : \A j \in opens : i <= j
              last == CHOOSE i \in closes : \A j \in closes : j <= i
          IN IF first < last
             THEN [found |-> TRUE, text |-> SubSeq(raw, first, last)]
             ELSE [found |-> FALSE, text |-> <<>>]

\* extractJSON: ok = FALSE stands for the null result
extractJSON(raw) ==
  LET match == BraceMatch(raw)
  IN IF ~match.found THEN ParseFail ELSE JsonParse(match.text)

Trim_Nothing(s) == s

\* String.prototype.trim
Trim(s) ==
  IF \A i \in 1..Len(s) : IsWs(s[i]) THEN <<>>
  ELSE LET first == CHOOSE i \in 1..Len(s) : NotWs(s[i]) /\ \A j \in 1..(i - 1) : IsWs(s[j])
           last == CHOOSE i \in 1..Len(s) : NotWs(s[i]) /\ \A j \in (i + 1)..Len(s) : IsWs(s[j])
       IN SubSeq(s, first, last)

\* s.slice(0, k)
SliceFromStart(s, k) == SubSeq(s, 1, IF Len(s) < k THEN Len(s) ELSE k)

Classification(isRelevant, cleanCategory, summary) ==
  [EmptyObject EXCEPT !["isRelevant"] = isRelevant,
                      !["cleanCategory"] = cleanCategory,
                      !["summary"] = summary]

NoTextGenerated ==
  <<"N", "o", " ", "t", "e", "x", "t", " ",
    "g", "e", "n", "e", "r", "a", "t", "e", "d">>

Uncategorized ==
  <<"U", "n", "c", "a", "t", "e", "g", "o", "r", "i", "z", "e", "d">>

Threw == [threw |-> TRUE, value |-> EmptyObject]
Returned(v) == [threw |-> FALSE, value |-> v]

\* the body of callSLM's try block.  A service outcome o is a rejected fetch
\* ("networkError"), a response whose body is no JSON ("badBody"), or a
\* response ("body") with the value of data?.choices?.[0]?.message?.content
\* (JUndef when the body has no choices).  The HTTP status is never read.
CallSLMTry(o) ==
  IF o.kind # "body" THEN Threw
  ELSE LET text == Or(o.content, S(<<>>))
       IN IF ~Truthy(text)
          THEN Returned(Classification(JBool(FALSE), S(<<>>), S(NoTextGenerated)))
          ELSE IF text.t # "string" THEN Threw   \* raw.match is not a function
          ELSE LET parsed == extractJSON(text.s)
               IN IF parsed.ok THEN Returned(parsed.obj)
                  ELSE Returned(Classification(JBool(TRUE), S(Uncategorized),
                         S(SliceFromStart(Trim(text.s), SummaryLimit))))

\* callSLM: the catch block returns the error default
CallSLM(o) ==
  LET r == CallSLMTry(o)
  IN IF r.threw
     THEN Returned(Classification(JBool(FALSE), S(<<>>), S(<<>>)))
     ELSE r

(***************************************************************************)
(* scrapper.js: enrichWithSLM.                                             *)
(***************************************************************************)
WithOriginals_SpreadLast(item, obj) == obj

WithOriginals(item, obj) ==
  [obj EXCEPT !["originalCategory"] = item.category,
              !["originalDescription"] = item.description]

\* r is what the awaited callSLM produced
EnrichWithSLM(item, r) ==
  IF ~r.threw
  THEN Returned(WithOriginals(item, Spread(item, r.value)))
  ELSE Returned(WithOriginals(item,
         Spread(item, Classification(JBool(FALSE), item.category, item.description))))

Rep(c, k) == [i \in 1..k |-> c]

TextAlphabet == {"{", "}", ",", "x", " ", "k:"} \cup MemberLexemes

\* texts that reach past the summary limit
LongTexts ==
  { Rep("x", SummaryLimit),
    Rep("x", SummaryLimit + 1),
    <<" ">> \o Rep("x", SummaryLimit + 1) \o <<"\n">>,
    <<"}">> \o Rep("x", SummaryLimit) \o <<"{">> }

Texts == SeqsUpTo(TextAlphabet, MaxTextLen) \cup LongTexts

Contents == {S(t) : t \in Texts} \cup {JUndef, JNull, JNum(5), JObj}

Outcomes ==
  { [kind |-> "networkError", status |-> 0, content |-> JUndef],
    [kind |-> "badBody", status |-> 502, content |-> JUndef] }
  \cup [kind : {"body"}, status : {200, 429}, content : Contents]

SlmItems ==
  { [EmptyObject EXCEPT !["name"] = S(<<"J", "o">>),
                        !["phone"] = S(<<"5">>),
                        !["email"] = S(<<>>),
                        !["category"] = c,
                        !["description"] = d] :
      c \in {S(<<"C", "a", "f", "e">>), S(<<>>)},
      d \in {S(<<"N", "i", "c", "e">>), S(<<>>)} }

NoOutcome == [kind |-> "none", status |-> 0, content |-> JUndef]

SlmInit ==
  /\ slmItem \in SlmItems
  /\ outcome = NoOutcome
  /\ response = Returned(EmptyObject)
  /\ enriched = Returned(EmptyObject)
  /\ slmPc = "start"

\* enrichWithSLM up to the return of the awaited callSLM
AwaitCallSLM ==
  /\ slmPc = "start"
  /\ \E o \in Outcomes :
       /\ outcome' = o
       /\ response' = CallSLM(o)
  /\ slmPc' = "called"
  /\ UNCHANGED <<slmItem, enriched>>

\* enrichWithSLM from there to its return
ReturnEnriched ==
  /\ slmPc = "called"
  /\ enriched' = EnrichWithSLM(slmItem, response)
  /\ slmPc' = "done"
  /\ UNCHANGED <<slmItem, outcome, response>>

SlmIdle ==
  /\ slmItem = EmptyObject
  /\ outcome = NoOutcome
  /\ response = Returned(EmptyObject)
  /\ enriched = Returned(EmptyObject)
  /\ slmPc = "off"

(***************************************************************************)
(* One record through the stages of main: detail enrichment, email         *)
(* resolution, classification.                                             *)
(***************************************************************************)
StartsWith(s, prefix) ==
  Len(s) >= Len(prefix) /\ SubSeq(s, 1, Len(prefix)) = prefix

Http == <<"h", "t", "t", "p">>

YellowPagesOrigin ==
  <<"h", "t", "t", "p", "s", ":", "/", "/", "w", "w", "w", ".",
    "y", "e", "l", "l", "o", "w", "p", "a", "g", "e", "s", ".", "c", "o", "m">>

IsPhoneChar(c) == IsDigit(c) \/ c = "+"

\* cleanPhoneNumber: "Send to phone" and every character that is no digit
\* and no "+" are removed
cleanPhoneNumber(phone) ==
  IF ~Truthy(phone) THEN S(<<>>) ELSE S(SelectSeq(phone.s, IsPhoneChar))

\* retry(fn, retries, delayFn) of an fn that fails its first `failures`
\* calls: whether it returns, and the number of delays slept
Retry(failures, retries) ==
  IF failures < retries
  THEN [ok |-> TRUE, calls |-> failures + 1, sleeps |-> failures]
  ELSE [ok |-> FALSE, calls |-> retries, sleeps |-> retries - 1]

GotoAttempts == 2

\* extractContactInfoWithoutClicking: the phone is cleaned when one was found
ContactInfo(page) ==
  [phone |-> IF Truthy(page.phone) THEN cleanPhoneNumber(page.phone) ELSE page.phone,
   website |-> page.website]

\* extractGoogleMapsContactInfo.  page is what the detail page does and
\* shows: newPageFails, gotoFailures (failing navigations in a row),
\* evalFails (page.evaluate rejects), and the values found on the page
extractGoogleMapsContactInfo(item, page) ==
  IF ~Truthy(item.detailUrl) \/ ~Truthy(item.detailsNeeded) THEN item
  ELSE IF page.newPageFails \/ ~Retry(page.gotoFailures, GotoAttempts).ok THEN item
  ELSE LET contactInfo == ContactInfo(page)
           i1 == IF Truthy(contactInfo.phone) /\ ~Truthy(item.phone)
                 THEN [item EXCEPT !["phone"] = contactInfo.phone] ELSE item
           i2 == IF Truthy(contactInfo.website) /\ ~Truthy(i1.website)
                 THEN [i1 EXCEPT !["website"] = contactInfo.website] ELSE i1
           i3 == IF ~Truthy(i2.address) /\ Truthy(page.address)
                 THEN [i2 EXCEPT !["address"] = page.address] ELSE i2
           i4 == IF ~Truthy(i3.description)
                 THEN [i3 EXCEPT !["description"] = page.description] ELSE i3
       IN IF ~Truthy(i2.address) /\ page.evalFails THEN i2
          ELSE [i4 EXCEPT !["detailsNeeded"] = JBool(FALSE)]

DescriptionMin == 20

\* scrapeYellowPagesDetail
scrapeYellowPagesDetail(item, page) ==
  IF ~Truthy(item.detailUrl) \/ ~Truthy(item.detailsNeeded) THEN item
  ELSE IF page.newPageFails THEN item
  ELSE LET i1 == IF ~StartsWith(item.detailUrl.s, Http)
                 THEN [item EXCEPT !["detailUrl"] = S(YellowPagesOrigin \o item.detailUrl.s)]
                 ELSE item
           i2 == [i1 EXCEPT !["email"] = page.email]
           wantsDescription ==
             ~Truthy(i2.description) \/ LengthBelow(i2.description, DescriptionMin)
           i3 == IF wantsDescription /\ Truthy(page.description)
                 THEN [i2 EXCEPT !["description"] = page.description] ELSE i2
       IN IF page.gotoFailures > 0 THEN i1
          ELSE IF wantsDescription /\ page.evalFails THEN i2
          ELSE [i3 EXCEPT !["detailsNeeded"] = JBool(FALSE)]

GoogleMaps == S(<<"g", "o", "o", "g", "l", "e", "_", "m", "a", "p", "s">>)
YellowPages == S(<<"y", "e", "l", "l", "o", "w", "_", "p", "a", "g", "e", "s">>)

\* the task main gives to detailLimit for one record
DetailTask(item, page) ==
  IF Truthy(item.detailsNeeded) /\ Truthy(item.detailUrl)
  THEN IF item.source = GoogleMaps THEN extractGoogleMapsContactInfo(item, page)
       ELSE IF item.source = YellowPages THEN scrapeYellowPagesDetail(item, page)
       ELSE item
  ELSE item

NoNavigation == [calls |-> 0, failed |-> 0, sleeps |-> 0]

\* the page.goto calls of DetailTask(item, page), how many of them rejected
\* and the delays slept between them: extractGoogleMapsContactInfo calls
\* goto inside retry; scrapeYellowPagesDetail calls it once and, when that
\* call returned, extractEmailFromYellowPages calls it again after the sleep
\* (failed counts the first call only)
Navigation(item, page) ==
  IF ~Truthy(item.detailsNeeded) \/ ~Truthy(item.detailUrl) \/ page.newPageFails
  THEN NoNavigation
  ELSE IF item.source = GoogleMaps
  THEN LET r == Retry(page.gotoFailures, GotoAttempts)
       IN [calls |-> r.calls,
           failed |-> IF r.ok THEN r.calls - 1 ELSE r.calls,
           sleeps |-> r.sleeps]
  ELSE IF item.source = YellowPages
  THEN IF page.gotoFailures > 0
       THEN [calls |-> 1, failed |-> 1, sleeps |-> 0]
       ELSE [calls |-> 2, failed |-> 0, sleeps |-> 1]
  ELSE NoNavigation

\* main's email step for one record; result is what cluster.execute gave
\* (threw: it rejected)
EmailTask(item, result) ==
  IF Truthy(item.website) /\ ~Truthy(item.email)
  THEN [item EXCEPT !["email"] = IF result.threw THEN JNull ELSE result.value]
  ELSE item

\* main's classification step for one record
ClassifyTask(item, o) ==
  LET r == EnrichWithSLM(item, CallSLM(o))
  IN IF ~r.threw THEN r.value
     ELSE WithOriginals(item,
            Spread(item, Classification(JBool(FALSE), item.category, item.description)))

LongDescription == S(Rep("d", DescriptionMin + 1))

DetailPages ==
  [newPageFails : BOOLEAN, gotoFailures : 0..GotoAttempts, evalFails : BOOLEAN,
   phone : {S(<<>>), S(<<"(", "7", ")", " ", "7">>)},
   website : {S(<<>>), S(<<"h", "t", "t", "p", ":", "v">>)},
   address : {S(<<>>), S(<<"R", "d">>)},
   description : {JNull, LongDescription},
   email : {JNull, S(<<"y", "@", "p">>)}]

\* the records the extraction paths build: the structured Google Maps path
\* (no source, a description possible), the Google Maps markup path and the
\* Yellow Pages listing path
ExtractedItems ==
  { [EmptyObject EXCEPT !["name"] = S(<<"J", "o">>),
                        !["source"] = src,
                        !["phone"] = ph,
                        !["website"] = S(<<>>),
                        !["address"] = ad,
                        !["category"] = S(<<"C", "a", "f", "e">>),
                        !["description"] = de,
                        !["email"] = S(<<>>),
                        !["rating"] = IF src = YellowPages THEN S(<<>>) ELSE JNum(4),
                        !["ratingCount"] = IF src = YellowPages THEN S(<<>>) ELSE S(<<"0">>),
                        !["detailsNeeded"] = JBool(TRUE),
                        !["detailUrl"] = url] :
      src \in {JUndef, GoogleMaps, YellowPages},
      ph \in {S(<<>>), S(<<"5">>)},
      ad \in {S(<<>>), S(<<"S", "t">>)},
      de \in {S(<<>>), S(<<"t", "e", "a">>)},
      url \in {S(<<>>), S(<<"/", "m">>), S(<<"h", "t", "t", "p", ":", "u">>)} }

ReachableExtracted(it) == it.description = S(<<>>) \/ it.source = JUndef

RecordOutcomes ==
  { [kind |-> "networkError", status |-> 0, content |-> JUndef] }
  \cup [kind : {"body"}, status : {200},
        content : {S(<<"{", "mFull", "}">>), S(<<"{", "mPhone", "}">>),
                   S(<<"{", "mCat", "}">>), S(<<"{", "}">>), S(<<"x">>)}]

RecordInit ==
  /\ lead \in {it \in ExtractedItems : ReachableExtracted(it)}
  /\ shouldExtractEmails \in BOOLEAN
  /\ stage = "detail"
  /\ nav = NoNavigation

DetailStage ==
  /\ stage = "detail"
  /\ \E page \in DetailPages :
       /\ lead' = DetailTask(lead, page)
       /\ nav' = Navigation(lead, page)
  /\ stage' = "email"
  /\ UNCHANGED shouldExtractEmails

EmailStage ==
  /\ stage = "email"
  /\ IF shouldExtractEmails
     THEN \E result \in {Threw, Returned(JNull), Returned(S(<<"a", "@", "b">>))} :
            lead' = EmailTask(lead, result)
     ELSE lead' = lead
  /\ stage' = "classify"
  /\ UNCHANGED <<shouldExtractEmails, nav>>

ClassifyStage ==
  /\ stage = "classify"
  /\ \E o \in RecordOutcomes : lead' = ClassifyTask(lead, o)
  /\ stage' = "done"
  /\ UNCHANGED <<shouldExtractEmails, nav>>

RecordIdle ==
  /\ lead = EmptyObject
  /\ shouldExtractEmails = FALSE
  /\ stage = "off"
  /\ nav = NoNavigation

(***************************************************************************)
(* main: saving enrichedResults to MongoDB and to the Excel file.          *)
(***************************************************************************)
\* The keys of dataSchema
SchemaKeys ==
  {"name", "phone", "rating", "ratingCount", "address", "category", "website",
   "email", "description", "source"}

\* what the update keeps of a record: with a strict schema only the keys of
\* dataSchema
CastUpdate(item, strict) ==
  [k \in ItemKeys |-> IF strict /\ k \notin SchemaKeys THEN JUndef ELSE item[k]]

\* the filter { name: item.name, source: item.source }
Matches(doc, item) == doc.name = item.name /\ doc.source = item.source

Upsert_InsertAlways(docs, item, strict) == Append(docs, CastUpdate(item, strict))

\* findOneAndUpdate(filter, { $set: item }, { upsert: true }): the first
\* matching document gets the fields of the update, the others stay; without
\* a match a document with the fields of the update is inserted
Upsert(docs, item, strict) ==
  LET matching == {i \in 1..Len(docs) : Matches(docs[i], item)}
  IN IF matching = {} THEN Append(docs, CastUpdate(item, strict))
     ELSE LET first == CHOOSE i \in matching : \A j \in matching : i <= j
          IN [docs EXCEPT ![first] = Spread(docs[first], CastUpdate(item, strict))]

\* enriched records; the service object held a summary or none
PersistItems ==
  { [EmptyObject EXCEPT !["name"] = nm,
                        !["source"] = GoogleMaps,
                        !["phone"] = ph,
                        !["email"] = JNull,
                        !["address"] = S(<<>>),
                        !["category"] = S(<<"C", "a", "f", "e">>),
                        !["website"] = S(<<>>),
                        !["description"] = S(<<>>),
                        !["rating"] = JNum(4),
                        !["ratingCount"] = S(<<"0">>),
                        !["detailsNeeded"] = JBool(TRUE),
                        !["detailUrl"] = S(<<>>),
                        !["isRelevant"] = JBool(TRUE),
                        !["summary"] = sm,
                        !["originalCategory"] = S(<<"C", "a", "f", "e">>),
                        !["originalDescription"] = S(<<>>)] :
      nm \in {S(<<"A">>), S(<<"J", "o">>), S(<<"B", "o">>)},
      ph \in {S(<<>>), S(<<"5">>)},
      sm \in {JUndef, S(<<"s">>)} }

\* extraction keeps one record per name
DistinctNames(results) ==
  \A i, j \in 1..Len(results) : i # j => results[i].name # results[j].name

\* a document left by an earlier run
EarlierDoc ==
  [EmptyObject EXCEPT !["name"] = S(<<"J", "o">>),
                      !["source"] = GoogleMaps,
                      !["phone"] = S(<<"7">>),
                      !["email"] = S(<<"o", "l", "d">>),
                      !["address"] = S(<<>>),
                      !["category"] = S(<<"C", "a", "f", "e">>),
                      !["website"] = S(<<>>),
                      !["description"] = S(<<>>),
                      !["rating"] = JNum(4),
                      !["ratingCount"] = S(<<"0">>),
                      !["isRelevant"] = JBool(TRUE),
                      !["summary"] = S(<<"o", "k">>)]

\* a file left by an earlier run
EarlierSheet ==
  JsonToSheet(<<[EmptyObject EXCEPT !["name"] = S(<<"j", "O">>),
                                   !["source"] = GoogleMaps,
                                   !["phone"] = S(<<"5">>),
                                   !["address"] = S(<<>>),
                                   !["rating"] = JNum(4)]>>)

PersistInit ==
  /\ enrichedResults \in {r \in SeqsUpTo(PersistItems, MaxBatch) : DistinctNames(r)}
  /\ mongoConnected \in BOOLEAN
  /\ mongoIdx = 1
  /\ upserted = <<>>
  /\ persistPc = "mongo"
  /\ strictSchema \in BOOLEAN
  /\ pass = 1
  /\ rejected = FALSE
  /\ fileExists \in BOOLEAN
  /\ sheet = IF fileExists THEN EarlierSheet ELSE <<>>
  /\ store = IF fileExists THEN <<CastUpdate(EarlierDoc, strictSchema)>> ELSE <<>>
  /\ data = <<>>
  /\ added = 0
  /\ skipped = 0
  /\ rerun = "none"

\* one iteration of the MongoDB loop; updateOk = FALSE: findOneAndUpdate rejects
MongoSaveItem ==
  /\ persistPc = "mongo"
  /\ mongoConnected
  /\ mongoIdx <= Len(enrichedResults)
  /\ LET it == enrichedResults[mongoIdx]
         errors == validateData(it) \o qualifyLead(it)
     IN IF Len(errors) > 0
        THEN UNCHANGED <<upserted, store, rejected>>
        ELSE \E updateOk \in BOOLEAN :
               IF updateOk
               THEN /\ upserted' = Append(upserted, it)
                    /\ store' = Upsert(store, it, strictSchema)
                    /\ UNCHANGED rejected
               ELSE /\ rejected' = TRUE
                    /\ UNCHANGED <<upserted, store>>
  /\ mongoIdx' = mongoIdx + 1
  /\ UNCHANGED <<enrichedResults, mongoConnected, persistPc, strictSchema, pass, excelVars>>

\* the loop is over, or MongoDB is not connected
MongoSaveDone ==
  /\ persistPc = "mongo"
  /\ ~mongoConnected \/ mongoIdx > Len(enrichedResults)
  /\ persistPc' = "excel"
  /\ UNCHANGED <<enrichedResults, mongoConnected, mongoIdx, upserted,
                 store, strictSchema, pass, rejected, excelVars>>

\* the program is run again and comes to the save stage with the same
\* enrichedResults
PersistAgain ==
  /\ persistPc = "done"
  /\ pass < MaxPasses
  /\ pass' = pass + 1
  /\ persistPc' = "mongo"
  /\ mongoIdx' = 1
  /\ UNCHANGED <<enrichedResults, mongoConnected, upserted, store, strictSchema,
                 rejected, excelVars>>

IsQualified(it) == Len(qualifyLead(it)) = 0

QualifiedResults(results) == SelectSeq(results, IsQualified)

ExcelSave ==
  /\ persistPc = "excel"
  /\ SaveToExcel(QualifiedResults(enrichedResults))
  /\ persistPc' = "done"
  /\ UNCHANGED <<enrichedResults, mongoConnected, mongoIdx, upserted,
                 store, strictSchema, pass, rejected>>

PersistIdle ==
  /\ enrichedResults = <<>>
  /\ mongoConnected = FALSE
  /\ mongoIdx = 0
  /\ upserted = <<>>
  /\ persistPc = "off"
  /\ store = <<>>
  /\ strictSchema = FALSE
  /\ pass = 0
  /\ rejected = FALSE

(***************************************************************************)
(* main: acquisition from the selected sources (scrapeGoogleMaps with      *)
(* parseGoogleMapsAPIData, scrapeYellowPages).                             *)
(* A captured response text is a sequence of tokens: the guard prefix,     *)
(* whitespace, markup markers, other characters ("x") and payload tokens,  *)
(* each standing for one JSON value.                                       *)
(***************************************************************************)
Jo == S(<<"J", "o">>)
Bo == S(<<"B", "o">>)

GuardPrefix == ")]}'"

MarkupTokens == {"<!DOCTYPE", "<html", "<body", "<div", "<script"}

PayloadTokens == {"jJoBo", "jBoJo", "jJoJo", "jNone", "jScript"}

TextTokens == {GuardPrefix, " ", "x"} \cup MarkupTokens \cup PayloadTokens

\* the names of the businesses array a JSON value yields ("jNone": no array);
\* "jScript" holds the characters <script inside a string
Businesses(token) ==
  CASE token = "jJoBo" -> <<Jo, Bo>>
    [] token = "jBoJo" -> <<Bo, Jo>>
    [] token = "jJoJo" -> <<Jo, S(<<>>), Jo>>
    [] token = "jScript" -> <<Jo>>
    [] OTHER -> <<>>

IsSpace(token) == token = " "
NotSpace(token) == token # " "

\* data.startsWith(")]}'") ? data.substring(4) : data
StripGuard(text) ==
  IF Len(text) > 0 /\ text[1] = GuardPrefix THEN Tail(text) ELSE text

\* text.trim().startsWith(marker)
TrimmedStartsWith(text, marker) ==
  \E i \in 1..Len(text) :
    /\ text[i] = marker
    /\ \A j \in 1..(i - 1) : IsSpace(text[j])

\* text.includes(marker)
Includes(text, marker) ==
  \E i \in 1..Len(text) :
    text[i] = marker \/ (marker = "<script" /\ text[i] = "jScript")

\* the check of the response loop
GotHtml(text) ==
  \/ TrimmedStartsWith(text, "<!DOCTYPE")
  \/ TrimmedStartsWith(text, "<html")
  \/ Includes(text, "<body")
  \/ Includes(text, "<div")
  \/ Includes(text, "<script")

\* the check of the searchAPIResponseData path
DetectedHtml(text) ==
  \/ TrimmedStartsWith(text, "<!DOCTYPE")
  \/ TrimmedStartsWith(text, "<html")
  \/ Includes(text, "<body")
  \/ Includes(text, "<div")

\* JSON.parse(text): one JSON value, whitespace around it allowed
ParseJson(text) ==
  LET body == SelectSeq(text, NotSpace)
  IN IF Len(body) = 1 /\ body[1] \in PayloadTokens
     THEN [ok |-> TRUE, businesses |-> Businesses(body[1]),
           isArray |-> body[1] # "jNone"]
     ELSE [ok |-> FALSE, businesses |-> <<>>, isArray |-> FALSE]

NameOf(rows) == [i \in 1..Len(rows) |-> rows[i].name]

\* the record literal of the structured path: no source
ApiItem(name) ==
  [EmptyObject EXCEPT !["name"] = name,
                      !["address"] = S(<<>>),
                      !["category"] = S(<<>>),
                      !["rating"] = JNum(0),
                      !["ratingCount"] = S(<<"0">>),
                      !["phone"] = S(<<>>),
                      !["website"] = S(<<>>),
                      !["email"] = S(<<>>),
                      !["description"] = S(<<>>),
                      !["detailsNeeded"] = JBool(TRUE),
                      !["detailUrl"] = S(<<"h", "t", "t", "p", ":", "u">>)]

\* the record literal of the markup path of Google Maps
DomItem(name) == [ApiItem(name) EXCEPT !["source"] = GoogleMaps]

\* the record literal of scrapeYellowPages
YpItem(name) ==
  [ApiItem(name) EXCEPT !["source"] = YellowPages,
                        !["rating"] = S(<<>>),
                        !["ratingCount"] = S(<<>>),
                        !["detailUrl"] = S(<<"/", "m">>)]

NamesOf(rows) == {rows[i].name : i \in 1..Len(rows)}

\* the names that pass if (!name || seenNames.has(name)) continue, each
\* added to seenNames as it passes
RECURSIVE NewNames(_, _)
NewNames(seenNames, names) ==
  IF names = <<>> THEN <<>>
  ELSE IF ~Truthy(Head(names)) \/ Head(names) \in seenNames
  THEN NewNames(seenNames, Tail(names))
  ELSE <<Head(names)>> \o NewNames(seenNames \cup {Head(names)}, Tail(names))

ApiItems(names) == [i \in 1..Len(names) |-> ApiItem(names[i])]
DomItems(names) == [i \in 1..Len(names) |-> DomItem(names[i])]
YpItems(names) == [i \in 1..Len(names) |-> YpItem(names[i])]

Skipped(found, parseCalled) ==
  [results |-> found, parseCalled |-> parseCalled, iterated |-> <<>>]

\* one iteration of the response loop: the results after it, whether
\* JSON.parse was called, and the businesses iterated
LoopResponse(found, text) ==
  LET cleaned == StripGuard(text)
      parsed == ParseJson(cleaned)
  IN IF GotHtml(cleaned) THEN Skipped(found, FALSE)
     ELSE IF ~parsed.ok \/ ~parsed.isArray THEN Skipped(found, TRUE)
     ELSE [results |-> found \o ApiItems(NewNames(NamesOf(found), parsed.businesses)),
           parseCalled |-> TRUE, iterated |-> parsed.businesses]

\* the searchAPIResponseData path: null is the empty result
ElementResponse(text) ==
  LET cleaned == StripGuard(text)
      parsed == ParseJson(cleaned)
  IN IF DetectedHtml(cleaned) THEN Skipped(<<>>, FALSE)
     ELSE IF ~parsed.ok \/ ~parsed.isArray THEN Skipped(<<>>, TRUE)
     ELSE [results |-> ApiItems(NewNames({}, parsed.businesses)),
           parseCalled |-> TRUE, iterated |-> parsed.businesses]

ListingNames == {Jo, Bo, S(<<>>)}

ResponseTexts == SeqsUpTo(TextTokens, MaxTokens)

\* what a source's acquisition has done so far; unannounced: the page
\* currentPage was reached without the page before it showing a next-page
\* control
NoTrace ==
  [navigated |-> FALSE, captcha |-> FALSE, afterCaptcha |-> FALSE,
   scrolled |-> FALSE, extracted |-> FALSE,
   htmlParsed |-> FALSE, htmlRecords |-> FALSE, fallback |-> FALSE,
   captured |-> <<>>, returned |-> <<>>, failed |-> FALSE,
   unannounced |-> FALSE, requestedUnannounced |-> FALSE]

AcqIdle ==
  /\ useGoogleMaps = FALSE
  /\ useYellowPages = FALSE
  /\ maxResults = 0
  /\ acqPc = "off"
  /\ allResults = <<>>
  /\ gmLeft = 0
  /\ apiResults = <<>>
  /\ gmTrace = NoTrace
  /\ allListings = <<>>
  /\ currentPage = 0
  /\ hasMorePages = FALSE
  /\ consecutiveFailures = 0
  /\ ypTrace = NoTrace

\* after the prompts: at least one source is selected
AcqInit ==
  /\ useGoogleMaps \in BOOLEAN
  /\ useYellowPages \in BOOLEAN
  /\ useGoogleMaps \/ useYellowPages
  /\ maxResults \in 1..MaxResults
  /\ acqPc = "start"
  /\ allResults = <<>>
  /\ gmLeft = 0
  /\ apiResults = <<>>
  /\ gmTrace = NoTrace
  /\ allListings = <<>>
  /\ currentPage = 1
  /\ hasMorePages = TRUE
  /\ consecutiveFailures = 0
  /\ ypTrace = NoTrace

ypState == <<allListings, currentPage, hasMorePages, consecutiveFailures, ypTrace>>
gmState == <<gmLeft, apiResults, gmTrace>>
selection == <<useGoogleMaps, useYellowPages, maxResults>>

AfterGoogleMaps == IF useYellowPages THEN "yp" ELSE "collected"

\* if (useGoogleMaps) ... if (useYellowPages) ...
StartSources ==
  /\ acqPc = "start"
  /\ acqPc' = IF useGoogleMaps THEN "gm" ELSE AfterGoogleMaps
  /\ UNCHANGED <<selection, allResults, gmState, ypState>>

\* scrapeGoogleMaps throws: main logs and goes on with allResults as it is
GoogleMapsFailed ==
  /\ acqPc' = AfterGoogleMaps
  /\ UNCHANGED <<allResults, gmLeft, apiResults>>

\* scrapeGoogleMaps up to checkForCaptcha
GmNavigate ==
  /\ acqPc = "gm"
  /\ \E gotoOk \in BOOLEAN, hasCaptcha \in BOOLEAN :
       IF ~gotoOk
       THEN /\ gmTrace' = [gmTrace EXCEPT !.navigated = TRUE, !.failed = TRUE]
            /\ GoogleMapsFailed
       ELSE IF hasCaptcha
       THEN /\ gmTrace' = [gmTrace EXCEPT !.navigated = TRUE, !.captcha = TRUE,
                                          !.failed = TRUE]
            /\ GoogleMapsFailed
       ELSE /\ gmTrace' = [gmTrace EXCEPT !.navigated = TRUE]
            /\ acqPc' = "gmScroll"
            /\ UNCHANGED <<allResults, gmLeft, apiResults>>
  /\ UNCHANGED <<selection, ypState>>

\* autoScrollGoogleMaps, then parseGoogleMapsAPIData up to the choice between
\* the captured responses (n of them) and the searchAPIResponseData element
GmScroll ==
  /\ acqPc = "gmScroll"
  /\ \E n \in 0..MaxResponses :
       /\ gmLeft' = n
       /\ acqPc' = IF n = 0 THEN "gmElement" ELSE "gmLoop"
  /\ gmTrace' = [gmTrace EXCEPT !.scrolled = TRUE]
  /\ UNCHANGED <<selection, allResults, apiResults, ypState>>

\* the trace after a response text went through the structured path
Traced(trace, text, r, before) ==
  LET html == GotHtml(StripGuard(text))
  IN [trace EXCEPT !.extracted = TRUE,
                   !.htmlParsed = @ \/ (html /\ r.parseCalled),
                   !.htmlRecords = @ \/ (html /\ Len(r.results) > Len(before)),
                   !.captured = @ \o r.iterated]

\* one iteration of for (const response of responses)
GmLoopResponse ==
  /\ acqPc = "gmLoop"
  /\ gmLeft > 0
  /\ \E text \in ResponseTexts :
       LET r == LoopResponse(apiResults, text)
       IN /\ apiResults' = r.results
          /\ gmTrace' = Traced(gmTrace, text, r, apiResults)
  /\ gmLeft' = gmLeft - 1
  /\ UNCHANGED <<selection, acqPc, allResults, ypState>>

\* the structured path returned apiData: scrapeGoogleMaps returns it when it
\* has records, and goes on to the markup path when it has none
StructuredReturns(found) ==
  IF Len(found) > 0
  THEN /\ allResults' = allResults \o found
       /\ gmTrace' = [gmTrace EXCEPT !.returned = found]
       /\ acqPc' = AfterGoogleMaps
  ELSE /\ acqPc' = "gmDom"
       /\ UNCHANGED <<allResults, gmTrace>>

GmLoopDone ==
  /\ acqPc = "gmLoop"
  /\ gmLeft = 0
  /\ StructuredReturns(apiResults)
  /\ UNCHANGED <<selection, gmLeft, apiResults, ypState>>

\* the searchAPIResponseData path: no element, or an element with a text
GmElement ==
  /\ acqPc = "gmElement"
  /\ \/ /\ acqPc' = "gmDom"
        /\ UNCHANGED <<allResults, apiResults, gmTrace>>
     \/ \E text \in ResponseTexts :
          LET r == ElementResponse(text)
              traced == Traced(gmTrace, text, r, <<>>)
          IN /\ apiResults' = r.results
             /\ IF Len(r.results) > 0
                THEN /\ allResults' = allResults \o r.results
                     /\ gmTrace' = [traced EXCEPT !.returned = r.results]
                     /\ acqPc' = AfterGoogleMaps
                ELSE /\ gmTrace' = traced
                     /\ acqPc' = "gmDom"
                     /\ UNCHANGED allResults
  /\ UNCHANGED <<selection, gmLeft, ypState>>

\* the markup path: page.evaluate over the listings of the page
GmDom ==
  /\ acqPc = "gmDom"
  /\ \E names \in SeqsUpTo(ListingNames, MaxListings) :
       LET domData == DomItems(NewNames({}, names))
       IN /\ allResults' = allResults \o domData
          /\ gmTrace' = [gmTrace EXCEPT !.fallback = TRUE, !.extracted = TRUE,
                                        !.captured = names, !.returned = domData]
  /\ acqPc' = AfterGoogleMaps
  /\ UNCHANGED <<selection, gmLeft, apiResults, ypState>>

YpFailureLimit == 3

YpLoopCondition ==
  /\ Len(allListings) < maxResults
  /\ hasMorePages
  /\ consecutiveFailures < YpFailureLimit

\* one iteration of the while loop of scrapeYellowPages.  The page may show
\* a CAPTCHA marker: the code does not look for one.
YpPage ==
  /\ acqPc = "yp"
  /\ YpLoopCondition
  /\ \E hasCaptcha \in BOOLEAN,
        visit \in {"newPageFails", "gotoFails", "noSelector", "listings"},
        names \in SeqsUpTo(ListingNames, MaxListings),
        nextPageExists \in BOOLEAN :
       LET listings == YpItems(SelectSeq(names, Truthy))
           loaded == [ypTrace EXCEPT !.navigated = TRUE,
                                     !.captcha = @ \/ hasCaptcha,
                                     !.afterCaptcha = @ \/ ypTrace.captcha,
                                     !.requestedUnannounced =
                                        @ \/ ypTrace.unannounced]
       IN CASE visit = "newPageFails" ->
                 /\ names = <<>> /\ ~nextPageExists /\ ~hasCaptcha
                 /\ ypTrace' = [ypTrace EXCEPT !.failed = TRUE]
                 /\ acqPc' = "collected"
                 /\ UNCHANGED <<allListings, currentPage, hasMorePages,
                                consecutiveFailures>>
            [] visit = "gotoFails" ->
                 /\ names = <<>> /\ ~nextPageExists /\ ~hasCaptcha
                 /\ ypTrace' = [ypTrace EXCEPT !.navigated = TRUE,
                                               !.afterCaptcha = @ \/ ypTrace.captcha,
                                               !.requestedUnannounced =
                                                  @ \/ ypTrace.unannounced,
                                               !.unannounced = TRUE]
                 /\ consecutiveFailures' = consecutiveFailures + 1
                 /\ currentPage' = currentPage + 1
                 /\ UNCHANGED <<allListings, hasMorePages, acqPc>>
            [] visit = "noSelector" ->
                 /\ names = <<>> /\ ~nextPageExists
                 /\ ypTrace' = loaded
                 /\ consecutiveFailures' = consecutiveFailures + 1
                 /\ UNCHANGED <<allListings, currentPage, hasMorePages, acqPc>>
            [] visit = "listings" ->
                 /\ ypTrace' = [loaded EXCEPT !.extracted = TRUE,
                                              !.captured = @ \o SelectSeq(names, Truthy),
                                              !.unannounced =
                                                 IF nextPageExists THEN FALSE
                                                 ELSE @]
                 /\ allListings' = IF Len(listings) = 0 THEN allListings
                                   ELSE allListings \o listings
                 /\ consecutiveFailures' =
                      IF Len(listings) = 0 THEN consecutiveFailures + 1 ELSE 0
                 /\ hasMorePages' =
                      (nextPageExists /\ Len(allListings') < maxResults)
                 /\ currentPage' = IF hasMorePages' THEN currentPage + 1 ELSE currentPage
                 /\ UNCHANGED acqPc
  /\ UNCHANGED <<selection, allResults, gmState>>

\* s.slice(0, k)
Slice(rows, k) == SubSeq(rows, 1, IF Len(rows) < k THEN Len(rows) ELSE k)

\* return allListings.slice(0, maxResults)
YpReturn ==
  /\ acqPc = "yp"
  /\ ~YpLoopCondition
  /\ allResults' = allResults \o Slice(allListings, maxResults)
  /\ ypTrace' = [ypTrace EXCEPT !.returned = Slice(allListings, maxResults)]
  /\ acqPc' = "collected"
  /\ UNCHANGED <<selection, gmState, allListings, currentPage, hasMorePages,
                 consecutiveFailures>>

(***************************************************************************)
(* autoScrollGoogleMaps.  One cycle of the loop counts the result nodes    *)
(* and, below the target, scrolls and compares the count with              *)
(* previousCount.  counts is the history of the counts taken.              *)
(***************************************************************************)
RetryLimit == 3

\* the lengths document.querySelectorAll(...) can return, and the targets
NodeCounts == {0, 10, 30, 50, 60}
ScrollTargets == {10, 30, 50}

GmScrollIdle ==
  /\ scrollMax = 0
  /\ previousCount = 0
  /\ scrollRetries = 0
  /\ currentCount = 0
  /\ counts = <<>>
  /\ gmScrollPc = "off"

\* let previousCount = 0; let retries = 0;
GmScrollInit ==
  /\ scrollMax \in ScrollTargets
  /\ previousCount = 0
  /\ scrollRetries = 0
  /\ currentCount = 0
  /\ counts = <<>>
  /\ gmScrollPc = "count"

NextRetries_NoReset(current, previous, r) ==
  IF current = previous THEN r + 1 ELSE r

\* if (currentCount === previousCount) retries++; else retries = 0;
NextRetries(current, previous, r) ==
  IF current = previous THEN r + 1 ELSE 0

\* const currentCount = ...length; if (currentCount >= maxResults) break;
CountNodes ==
  /\ gmScrollPc = "count"
  /\ Len(counts) < MaxCycles
  /\ \E n \in NodeCounts :
       /\ currentCount' = n
       /\ counts' = Append(counts, n)
       /\ gmScrollPc' = IF n >= scrollMax THEN "reached" ELSE "scroll"
  /\ UNCHANGED <<scrollMax, previousCount, scrollRetries>>

\* the same step without the history of the counts: the loop itself sets no
\* limit to the number of cycles
CountNodesAgain ==
  /\ gmScrollPc = "count"
  /\ \E n \in NodeCounts :
       /\ currentCount' = n
       /\ gmScrollPc' = IF n >= scrollMax THEN "reached" ELSE "scroll"
  /\ UNCHANGED <<scrollMax, previousCount, scrollRetries, counts>>

\* scrollBy, the wait, the comparison with previousCount and
\* if (retries >= 3) break;
ScrollAndCompare ==
  /\ gmScrollPc = "scroll"
  /\ scrollRetries' = NextRetries(currentCount, previousCount, scrollRetries)
  /\ previousCount' =
       IF currentCount = previousCount THEN previousCount ELSE currentCount
  /\ gmScrollPc' = IF scrollRetries' >= RetryLimit THEN "noMore" ELSE "count"
  /\ UNCHANGED <<scrollMax, currentCount, counts>>

(***************************************************************************)
(* autoScrollYellowPages: the callback of scrollInterval.  One             *)
(* noChangeCount serves both the unresponsive check and the unchanged      *)
(* check.  The interval is not cleared while the final burst and its       *)
(* timeout are pending, so the callback can run again before the promise   *)
(* resolves; resolve() takes effect once.                                  *)
(* unresponsiveCycles and unchangedRun are the history of the cycles,      *)
(* bursts the final bursts started, timersFired the final timeouts that    *)
(* have run, resolveCalls the calls of resolve().                          *)
(***************************************************************************)
UnresponsiveLimit == 3
NoChangeLimit == 8
maxScrollAttempts == 50

\* the values countListings() can return, and the targets
ListingCounts == {0, 5, 9}
YpScrollTargets == {9}

Capped(n, limit) == IF n < limit THEN n ELSE limit

YpScrollIdle ==
  /\ ypScrollMax = 0
  /\ previousResultCount = 0
  /\ noChangeCount = 0
  /\ totalScrolls = 0
  /\ ypScrollPc = "off"
  /\ stopReason = "none"
  /\ overlap = 0
  /\ unresponsiveCycles = 0
  /\ unchangedRun = 0
  /\ decidedRun = 0
  /\ bursts = 0
  /\ timersFired = 0
  /\ resolveCalls = 0

\* let previousResultCount = 0; let noChangeCount = 0; let totalScrolls = 0;
YpScrollInit ==
  /\ ypScrollMax \in YpScrollTargets
  /\ previousResultCount = 0
  /\ noChangeCount = 0
  /\ totalScrolls = 0
  /\ ypScrollPc = "interval"
  /\ stopReason = "none"
  /\ overlap = 0
  /\ unresponsiveCycles = 0
  /\ unchangedRun = 0
  /\ decidedRun = 0
  /\ bursts = 0
  /\ timersFired = 0
  /\ resolveCalls = 0

\* resolve({... message}) with clearInterval
Resolve(reason) ==
  /\ ypScrollPc' = "resolved"
  /\ stopReason' = IF stopReason = "none" THEN reason ELSE stopReason
  /\ resolveCalls' = resolveCalls + 1

\* one run of the callback
ScrollCycle ==
  /\ \/ ypScrollPc = "interval"
     \/ ypScrollPc = "final" /\ overlap < MaxOverlap
  /\ \E currentResults \in ListingCounts, scrollSuccess \in BOOLEAN,
        clickedButton \in BOOLEAN :
       LET unresponsive == ~scrollSuccess /\ ~clickedButton
           same == currentResults = previousResultCount
           afterFirst == IF unresponsive THEN noChangeCount + 1
                         ELSE noChangeCount
           afterSecond == IF same THEN afterFirst + 1 ELSE 0
           run == IF same THEN unchangedRun + 1 ELSE 0
       IN /\ totalScrolls' = totalScrolls + 1
          /\ overlap' = IF ypScrollPc = "final" THEN overlap + 1 ELSE overlap
          /\ IF currentResults >= ypScrollMax
             THEN /\ Resolve("reached target")
                  /\ UNCHANGED <<previousResultCount, noChangeCount,
                                 unresponsiveCycles, unchangedRun, decidedRun,
                                 bursts>>
             ELSE /\ unresponsiveCycles' =
                       IF unresponsive
                       THEN Capped(unresponsiveCycles + 1, UnresponsiveLimit)
                       ELSE unresponsiveCycles
                  /\ IF unresponsive /\ afterFirst >= UnresponsiveLimit
                     THEN /\ Resolve("scroll container unresponsive")
                          /\ noChangeCount' = afterFirst
                          /\ UNCHANGED <<previousResultCount, unchangedRun,
                                         decidedRun, bursts>>
                     ELSE /\ noChangeCount' = afterSecond
                          /\ unchangedRun' = Capped(run, NoChangeLimit)
                          /\ previousResultCount' =
                               IF same THEN previousResultCount
                               ELSE currentResults
                          /\ IF same /\ afterSecond >= NoChangeLimit
                             THEN /\ ypScrollPc' = "final"
                                  /\ bursts' = bursts + 1
                                  /\ decidedRun' =
                                       IF ypScrollPc = "final" THEN decidedRun
                                       ELSE Capped(run, NoChangeLimit)
                                  /\ UNCHANGED <<stopReason, resolveCalls>>
                             ELSE /\ UNCHANGED <<decidedRun, bursts>>
                                  /\ IF totalScrolls' >= maxScrollAttempts
                                     THEN Resolve("max attempts reached")
                                     ELSE UNCHANGED <<ypScrollPc, stopReason,
                                                      resolveCalls>>
  /\ UNCHANGED <<ypScrollMax, timersFired>>

\* the setTimeout callback of a final burst: clearInterval and resolve();
\* it also runs when a later cycle has resolved the promise already
FinalResolve ==
  /\ timersFired < bursts
  /\ timersFired' = timersFired + 1
  /\ Resolve("no more results loading")
  /\ UNCHANGED <<ypScrollMax, previousResultCount, noChangeCount, totalScrolls,
                 overlap, unresponsiveCycles, unchangedRun, decidedRun, bursts>>

(***************************************************************************)
(* main from the detail stage to the end: which awaited calls can reject   *)
(* and where a rejection is caught.  Every awaited call of a collaborator  *)
(* (browser, cluster, service, database) either returns or rejects.        *)
(* failed is the history of the stages in which a call rejected.           *)
(***************************************************************************)
RunStages == {"detail", "email", "classify", "mongoConnect", "upsert"}

RunIdle ==
  /\ runLeads = 0
  /\ runEmails = FALSE
  /\ runConnected = FALSE
  /\ runPc = "off"
  /\ runIdx = 0
  /\ classified = 0
  /\ merged = FALSE
  /\ failed = {}

\* after acquisition, the prompts and connectToMongoDB, which catches its
\* error and leaves mongoConnected false
RunInit ==
  /\ runLeads \in 1..MaxLeads
  /\ runEmails \in BOOLEAN
  /\ runConnected \in BOOLEAN
  /\ runPc = "detail"
  /\ runIdx = 1
  /\ classified = 0
  /\ merged = FALSE
  /\ failed = IF runConnected THEN {} ELSE {"mongoConnect"}

\* the outer catch of main: "Fatal error", then process.exit(0)
Fatal(stageName) ==
  /\ runPc' = "fatal"
  /\ failed' = failed \cup {stageName}
  /\ UNCHANGED <<runLeads, runEmails, runConnected, runIdx, classified, merged>>

\* the stage after the current one; the email stage and the MongoDB stage
\* are skipped when not selected or not connected
StageAfter(pc) ==
  CASE pc = "detail" -> IF runEmails THEN "emailLaunch" ELSE "classify"
    [] pc = "email" -> "classify"
    [] pc = "classify" -> IF runConnected THEN "mongo" ELSE "excel"
    [] pc = "mongo" -> "excel"

\* one step of a loop over allResults in stage pc
LoopStep(pc, atEnd) ==
  IF runIdx < runLeads
  THEN /\ runIdx' = runIdx + 1
       /\ runPc' = pc
  ELSE /\ runIdx' = 1
       /\ runPc' = atEnd

\* one task of the detail stage: extractGoogleMapsContactInfo or
\* scrapeYellowPagesDetail.  A rejection inside try is caught and the item
\* returned; page.close() in finally is awaited outside any catch, and its
\* rejection rejects Promise.all, which main awaits in try/finally only.
RunDetailTask ==
  /\ runPc = "detail"
  /\ \E tryRejects \in BOOLEAN, closeRejects \in BOOLEAN :
       IF closeRejects
       THEN Fatal("detail")
       ELSE /\ LoopStep("detail", "detailClose")
            /\ failed' = IF tryRejects THEN failed \cup {"detail"} ELSE failed
            /\ UNCHANGED <<runLeads, runEmails, runConnected, classified, merged>>

\* finally { await detailBrowser.close(); }
DetailClose ==
  /\ runPc = "detailClose"
  /\ \E closeRejects \in BOOLEAN :
       IF closeRejects
       THEN Fatal("detail")
       ELSE /\ runPc' = StageAfter("detail")
            /\ UNCHANGED <<runLeads, runEmails, runConnected, runIdx,
                           classified, merged, failed>>

\* await Cluster.launch(...); await cluster.task(...)
EmailLaunch ==
  /\ runPc = "emailLaunch"
  /\ \E launchRejects \in BOOLEAN :
       IF launchRejects
       THEN Fatal("email")
       ELSE /\ runPc' = "email"
            /\ UNCHANGED <<runLeads, runEmails, runConnected, runIdx,
                           classified, merged, failed>>

\* item.email = await cluster.execute(...) inside try/catch
RunEmailTask ==
  /\ runPc = "email"
  /\ \E executeRejects \in BOOLEAN :
       /\ LoopStep("email", "emailClose")
       /\ failed' = IF executeRejects THEN failed \cup {"email"} ELSE failed
  /\ UNCHANGED <<runLeads, runEmails, runConnected, classified, merged>>

\* finally { await cluster.idle(); await cluster.close(); }
EmailClose ==
  /\ runPc = "emailClose"
  /\ \E closeRejects \in BOOLEAN :
       IF closeRejects
       THEN Fatal("email")
       ELSE /\ runPc' = StageAfter("email")
            /\ UNCHANGED <<runLeads, runEmails, runConnected, runIdx,
                           classified, merged, failed>>

\* enrichedResults.push(...) in try and in catch
RunClassifyTask ==
  /\ runPc = "classify"
  /\ \E enrichRejects \in BOOLEAN :
       /\ LoopStep("classify", StageAfter("classify"))
       /\ classified' = classified + 1
       /\ failed' = IF enrichRejects THEN failed \cup {"classify"} ELSE failed
  /\ UNCHANGED <<runLeads, runEmails, runConnected, merged>>

\* validateData, qualifyLead and findOneAndUpdate inside try/catch
RunUpsertTask ==
  /\ runPc = "mongo"
  /\ \E updateRejects \in BOOLEAN :
       /\ LoopStep("mongo", StageAfter("mongo"))
       /\ failed' = IF updateRejects THEN failed \cup {"upsert"} ELSE failed
  /\ UNCHANGED <<runLeads, runEmails, runConnected, classified, merged>>

\* saveToExcel(qualifiedResults, excelPath), which catches its own errors
ExcelMerge ==
  /\ runPc = "excel"
  /\ merged' = TRUE
  /\ runPc' = "done"
  /\ UNCHANGED <<runLeads, runEmails, runConnected, runIdx, classified, failed>>

(***************************************************************************)
(* main: the tasks of the detail stage under detailLimit = pLimit(2) and   *)
(* Promise.all, then the email loop on the cluster and the classification  *)
(* loop.  Records are named by their index in allResults.                  *)
(* completionOrder is the history of the detail tasks' completions.        *)
(***************************************************************************)
DetailConcurrency == 2
EmailConcurrency == 3

Running(tasks) == {i \in DOMAIN tasks : tasks[i] = "running"}

PoolIdle ==
  /\ taskCount = 0
  /\ poolEmails = FALSE
  /\ detailTasks = <<>>
  /\ completionOrder = <<>>
  /\ poolResults = <<>>
  /\ emailTasks = <<>>
  /\ poolIdx = 0
  /\ poolPc = "off"

\* allResults.map(...) has handed every record's task to detailLimit
PoolInit ==
  /\ taskCount \in 1..MaxTasks
  /\ poolEmails \in BOOLEAN
  /\ detailTasks = [i \in 1..taskCount |-> "queued"]
  /\ completionOrder = <<>>
  /\ poolResults = <<>>
  /\ emailTasks = [i \in 1..taskCount |-> "waiting"]
  /\ poolIdx = 1
  /\ poolPc = "detail"

CanStart_Unlimited(tasks) == TRUE

\* pLimit(2): a queued task is started while fewer than 2 are running
CanStart(tasks) == Cardinality(Running(tasks)) < DetailConcurrency

InCompletionOrder(order) == order

\* Promise.all: the results in the order of the promises
InPromiseOrder(order) == [i \in 1..Len(order) |-> i]

\* detailLimit starts the queued task that was handed over first
DetailStart ==
  /\ poolPc = "detail"
  /\ CanStart(detailTasks)
  /\ \E i \in DOMAIN detailTasks :
       /\ detailTasks[i] = "queued"
       /\ \A j \in 1..(i - 1) : detailTasks[j] # "queued"
       /\ detailTasks' = [detailTasks EXCEPT ![i] = "running"]
  /\ UNCHANGED <<taskCount, poolEmails, completionOrder, poolResults,
                 emailTasks, poolIdx, poolPc>>

\* a running detail task returns its item; the tasks complete in any order.
\* A task that rejects rejects Promise.all and the run ends in main's catch.
DetailFinish ==
  /\ poolPc = "detail"
  /\ \E i \in Running(detailTasks), rejects \in BOOLEAN :
       IF rejects
       THEN /\ poolPc' = "fatal"
            /\ detailTasks' = [detailTasks EXCEPT ![i] = "rejected"]
            /\ UNCHANGED completionOrder
       ELSE /\ detailTasks' = [detailTasks EXCEPT ![i] = "done"]
            /\ completionOrder' = Append(completionOrder, i)
            /\ UNCHANGED poolPc
  /\ UNCHANGED <<taskCount, poolEmails, poolResults, emailTasks, poolIdx>>

\* allResults = await Promise.all(detailExtractionPromises)
DetailBarrier ==
  /\ poolPc = "detail"
  /\ \A i \in DOMAIN detailTasks : detailTasks[i] = "done"
  /\ poolResults' = InPromiseOrder(completionOrder)
  /\ poolPc' = IF poolEmails THEN "email" ELSE "classify"
  /\ UNCHANGED <<taskCount, poolEmails, detailTasks, completionOrder,
                 emailTasks, poolIdx>>

AdvanceLoop(atEnd) ==
  IF poolIdx < taskCount
  THEN /\ poolIdx' = poolIdx + 1
       /\ UNCHANGED poolPc
  ELSE /\ poolIdx' = 1
       /\ poolPc' = atEnd

\* the email loop: for a record with a website and no email,
\* item.email = await cluster.execute(...); the others are passed over
EmailExecute ==
  /\ poolPc = "email"
  /\ emailTasks[poolIdx] = "waiting"
  /\ \E wanted \in BOOLEAN :
       IF wanted
       THEN /\ emailTasks' = [emailTasks EXCEPT ![poolIdx] = "running"]
            /\ UNCHANGED <<poolIdx, poolPc>>
       ELSE /\ emailTasks' = [emailTasks EXCEPT ![poolIdx] = "skipped"]
            /\ AdvanceLoop("classify")
  /\ UNCHANGED <<taskCount, poolEmails, detailTasks, completionOrder, poolResults>>

\* cluster.execute returns or rejects (caught); the loop goes on
EmailFinish ==
  /\ poolPc = "email"
  /\ emailTasks[poolIdx] = "running"
  /\ emailTasks' = [emailTasks EXCEPT ![poolIdx] = "done"]
  /\ AdvanceLoop("classify")
  /\ UNCHANGED <<taskCount, poolEmails, detailTasks, completionOrder, poolResults>>

\* the classification loop: await enrichWithSLM(item), one record at a time
ClassifyStep ==
  /\ poolPc = "classify"
  /\ AdvanceLoop("done")
  /\ UNCHANGED <<taskCount, poolEmails, detailTasks, completionOrder,
                 poolResults, emailTasks>>

(***************************************************************************)
(* extractEmailFromWebsite and extractEmailFromYellowPages.  An address is *)
(* a sequence of pieces; includes(pattern) looks for the pieces of the     *)
(* pattern.  "EXAMPLE.COM" is the upper-case spelling of "example.com".    *)
(***************************************************************************)
EmailCandidates ==
  { <<"a", "@", "b.co">>, <<"info", "@", "domain.com">>,
    <<"x", "@", "example.com">>, <<"X", "@", "EXAMPLE.COM">>,
    <<"q", "@", "test", ".io">> }

\* email.toLowerCase()
LowerPiece(piece) ==
  CASE piece = "EXAMPLE.COM" -> "example.com"
    [] piece = "X" -> "x"
    [] OTHER -> piece

LowerEmail(email) == [i \in 1..Len(email) |-> LowerPiece(email[i])]

\* email.includes(pattern) for a pattern of one piece
IncludesPiece(email, piece) == \E i \in 1..Len(email) : email[i] = piece

\* email.includes("@" + start) for the start of a domain
IncludesAt(email, start) ==
  \E i \in 1..(Len(email) - 1) :
    /\ email[i] = "@"
    /\ \/ email[i + 1] = start
       \/ start = "example" /\ email[i + 1] = "example.com"

\* invalidPatterns.some((pattern) => lowEmail.includes(pattern))
InvalidPattern(email) ==
  LET lowEmail == LowerEmail(email)
  IN \/ IncludesPiece(lowEmail, "example.com")
     \/ IncludesPiece(lowEmail, "yourdomain")
     \/ IncludesPiece(lowEmail, "domain.com")
     \/ IncludesAt(lowEmail, "example")
     \/ IncludesAt(lowEmail, "test")

Valid(email) == ~InvalidPattern(email)

\* the Set uniqueEmails in insertion order: the lower-cased body matches
RECURSIVE UniqueLowered(_, _)
UniqueLowered(seen, emails) ==
  IF emails = <<>> THEN <<>>
  ELSE LET low == LowerEmail(Head(emails))
       IN IF low \in seen THEN UniqueLowered(seen, Tail(emails))
          ELSE <<low>> \o UniqueLowered(seen \cup {low}, Tail(emails))

\* the mailto addresses not yet in uniqueEmails, pushed as they are spelled
RECURSIVE NewMailto(_, _)
NewMailto(seen, emails) ==
  IF emails = <<>> THEN <<>>
  ELSE LET low == LowerEmail(Head(emails))
       IN IF low \in seen THEN NewMailto(seen, Tail(emails))
          ELSE <<Head(emails)>> \o NewMailto(seen \cup {low}, Tail(emails))

FirstOrNull(emails) == IF emails = <<>> THEN JNull ELSE S(Head(emails))

extractEmailFromWebsite(bodyMatches, mailtoLinks) ==
  LET fromBody == UniqueLowered({}, bodyMatches)
      results == fromBody \o
                 NewMailto({fromBody[i] : i \in 1..Len(fromBody)}, mailtoLinks)
  IN FirstOrNull(SelectSeq(results, Valid))

\* email.includes("@") && !email.includes("example.com")
MailtoAccepted(email) ==
  IncludesPiece(email, "@") /\ ~IncludesPiece(email, "example.com")

\* !email.includes("example.com") && !email.includes("domain.com")
BodyAccepted(email) ==
  ~IncludesPiece(email, "example.com") /\ ~IncludesPiece(email, "domain.com")

extractEmailFromYellowPages(bodyMatches, mailtoLinks) ==
  IF SelectSeq(mailtoLinks, MailtoAccepted) # <<>>
  THEN FirstOrNull(SelectSeq(mailtoLinks, MailtoAccepted))
  ELSE FirstOrNull(SelectSeq(bodyMatches, BodyAccepted))

EmailIdle ==
  /\ bodyEmails = <<>>
  /\ mailtoEmails = <<>>
  /\ storedEmail = JUndef
  /\ emailPc = "off"

\* the page the extraction looks at
EmailInit ==
  /\ bodyEmails \in SeqsUpTo(EmailCandidates, MaxCandidates)
  /\ mailtoEmails \in SeqsUpTo(EmailCandidates, MaxCandidates)
  /\ storedEmail = S(<<>>)
  /\ emailPc = "page"

\* main: item.email = await cluster.execute(...)
StoreWebsiteEmail ==
  /\ emailPc = "page"
  /\ storedEmail' = extractEmailFromWebsite(bodyEmails, mailtoEmails)
  /\ emailPc' = "website"
  /\ UNCHANGED <<bodyEmails, mailtoEmails>>

\* scrapeYellowPagesDetail: item.email = await extractEmailFromYellowPages(...)
StoreYellowPagesEmail ==
  /\ emailPc = "page"
  /\ storedEmail' = extractEmailFromYellowPages(bodyEmails, mailtoEmails)
  /\ emailPc' = "yellowPages"
  /\ UNCHANGED <<bodyEmails, mailtoEmails>>

ExcelIdle ==
  /\ fileExists = FALSE
  /\ sheet = <<>>
  /\ data = <<>>
  /\ added = 0
  /\ skipped = 0
  /\ rerun = "none"

ExcelNext ==
  \E d \in SeqsUpTo(ExcelRows, MaxBatch) :
    SaveToExcel(d)
    /\ UNCHANGED <<fpVars, qualifyVars, slmVars, recordVars, persistVars, acqVars, gmScrollVars, ypScrollVars, runVars, poolVars, emailVars>>

FpNext ==
  \/ ChangeCase
     /\ UNCHANGED <<excelVars, qualifyVars, slmVars, recordVars, persistVars, acqVars, gmScrollVars, ypScrollVars, runVars, poolVars, emailVars>>
  \/ InsertWhitespace
     /\ UNCHANGED <<excelVars, qualifyVars, slmVars, recordVars, persistVars, acqVars, gmScrollVars, ypScrollVars, runVars, poolVars, emailVars>>
  \/ DeleteWhitespace
     /\ UNCHANGED <<excelVars, qualifyVars, slmVars, recordVars, persistVars, acqVars, gmScrollVars, ypScrollVars, runVars, poolVars, emailVars>>

QualifyNext ==
  \/ ValidateData
     /\ UNCHANGED <<excelVars, fpVars, slmVars, recordVars, persistVars, acqVars, gmScrollVars, ypScrollVars, runVars, poolVars, emailVars>>
  \/ QualifyLead
     /\ UNCHANGED <<excelVars, fpVars, slmVars, recordVars, persistVars, acqVars, gmScrollVars, ypScrollVars, runVars, poolVars, emailVars>>

SlmNext ==
  \/ AwaitCallSLM
     /\ UNCHANGED <<excelVars, fpVars, qualifyVars, recordVars, persistVars, acqVars, gmScrollVars, ypScrollVars, runVars, poolVars, emailVars>>
  \/ ReturnEnriched
     /\ UNCHANGED <<excelVars, fpVars, qualifyVars, recordVars, persistVars, acqVars, gmScrollVars, ypScrollVars, runVars, poolVars, emailVars>>

RecordNext ==
  \/ DetailStage
     /\ UNCHANGED <<excelVars, fpVars, qualifyVars, slmVars, persistVars, acqVars, gmScrollVars, ypScrollVars, runVars, poolVars, emailVars>>
  \/ EmailStage
     /\ UNCHANGED <<excelVars, fpVars, qualifyVars, slmVars, persistVars, acqVars, gmScrollVars, ypScrollVars, runVars, poolVars, emailVars>>
  \/ ClassifyStage
     /\ UNCHANGED <<excelVars, fpVars, qualifyVars, slmVars, persistVars, acqVars, gmScrollVars, ypScrollVars, runVars, poolVars, emailVars>>

PersistNext ==
  \/ MongoSaveItem
     /\ UNCHANGED <<fpVars, qualifyVars, slmVars, recordVars, acqVars, gmScrollVars, ypScrollVars, runVars, poolVars, emailVars>>
  \/ MongoSaveDone
     /\ UNCHANGED <<fpVars, qualifyVars, slmVars, recordVars, acqVars, gmScrollVars, ypScrollVars, runVars, poolVars, emailVars>>
  \/ ExcelSave
     /\ UNCHANGED <<fpVars, qualifyVars, slmVars, recordVars, acqVars, gmScrollVars, ypScrollVars, runVars, poolVars, emailVars>>
  \/ PersistAgain
     /\ UNCHANGED <<fpVars, qualifyVars, slmVars, recordVars, acqVars, gmScrollVars, ypScrollVars, runVars, poolVars, emailVars>>

AcqNext ==
  \/ StartSources
     /\ UNCHANGED <<excelVars, fpVars, qualifyVars, slmVars, recordVars, persistVars, gmScrollVars, ypScrollVars, runVars, poolVars, emailVars>>
  \/ GmNavigate
     /\ UNCHANGED <<excelVars, fpVars, qualifyVars, slmVars, recordVars, persistVars, gmScrollVars, ypScrollVars, runVars, poolVars, emailVars>>
  \/ GmScroll
     /\ UNCHANGED <<excelVars, fpVars, qualifyVars, slmVars, recordVars, persistVars, gmScrollVars, ypScrollVars, runVars, poolVars, emailVars>>
  \/ GmLoopResponse
     /\ UNCHANGED <<excelVars, fpVars, qualifyVars, slmVars, recordVars, persistVars, gmScrollVars, ypScrollVars, runVars, poolVars, emailVars>>
  \/ GmLoopDone
     /\ UNCHANGED <<excelVars, fpVars, qualifyVars, slmVars, recordVars, persistVars, gmScrollVars, ypScrollVars, runVars, poolVars, emailVars>>
  \/ GmElement
     /\ UNCHANGED <<excelVars, fpVars, qualifyVars, slmVars, recordVars, persistVars, gmScrollVars, ypScrollVars, runVars, poolVars, emailVars>>
  \/ GmDom
     /\ UNCHANGED <<excelVars, fpVars, qualifyVars, slmVars, recordVars, persistVars, gmScrollVars, ypScrollVars, runVars, poolVars, emailVars>>
  \/ YpPage
     /\ UNCHANGED <<excelVars, fpVars, qualifyVars, slmVars, recordVars, persistVars, gmScrollVars, ypScrollVars, runVars, poolVars, emailVars>>
  \/ YpReturn
     /\ UNCHANGED <<excelVars, fpVars, qualifyVars, slmVars, recordVars, persistVars, gmScrollVars, ypScrollVars, runVars, poolVars, emailVars>>

GmScrollNext ==
  \/ CountNodes
     /\ UNCHANGED <<excelVars, fpVars, qualifyVars, slmVars, recordVars, persistVars, acqVars, ypScrollVars, runVars, poolVars, emailVars>>
  \/ ScrollAndCompare
     /\ UNCHANGED <<excelVars, fpVars, qualifyVars, slmVars, recordVars, persistVars, acqVars, ypScrollVars, runVars, poolVars, emailVars>>

YpScrollNext ==
  \/ ScrollCycle
     /\ UNCHANGED <<excelVars, fpVars, qualifyVars, slmVars, recordVars, persistVars, acqVars, gmScrollVars, runVars, poolVars, emailVars>>
  \/ FinalResolve
     /\ UNCHANGED <<excelVars, fpVars, qualifyVars, slmVars, recordVars, persistVars, acqVars, gmScrollVars, runVars, poolVars, emailVars>>

RunNext ==
  \/ RunDetailTask
     /\ UNCHANGED <<excelVars, fpVars, qualifyVars, slmVars, recordVars, persistVars, acqVars, gmScrollVars, ypScrollVars, poolVars, emailVars>>
  \/ DetailClose
     /\ UNCHANGED <<excelVars, fpVars, qualifyVars, slmVars, recordVars, persistVars, acqVars, gmScrollVars, ypScrollVars, poolVars, emailVars>>
  \/ EmailLaunch
     /\ UNCHANGED <<excelVars, fpVars, qualifyVars, slmVars, recordVars, persistVars, acqVars, gmScrollVars, ypScrollVars, poolVars, emailVars>>
  \/ RunEmailTask
     /\ UNCHANGED <<excelVars, fpVars, qualifyVars, slmVars, recordVars, persistVars, acqVars, gmScrollVars, ypScrollVars, poolVars, emailVars>>
  \/ EmailClose
     /\ UNCHANGED <<excelVars, fpVars, qualifyVars, slmVars, recordVars, persistVars, acqVars, gmScrollVars, ypScrollVars, poolVars, emailVars>>
  \/ RunClassifyTask
     /\ UNCHANGED <<excelVars, fpVars, qualifyVars, slmVars, recordVars, persistVars, acqVars, gmScrollVars, ypScrollVars, poolVars, emailVars>>
  \/ RunUpsertTask
     /\ UNCHANGED <<excelVars, fpVars, qualifyVars, slmVars, recordVars, persistVars, acqVars, gmScrollVars, ypScrollVars, poolVars, emailVars>>
  \/ ExcelMerge
     /\ UNCHANGED <<excelVars, fpVars, qualifyVars, slmVars, recordVars, persistVars, acqVars, gmScrollVars, ypScrollVars, poolVars, emailVars>>

PoolNext ==
  \/ DetailStart
     /\ UNCHANGED <<excelVars, fpVars, qualifyVars, slmVars, recordVars, persistVars, acqVars, gmScrollVars, ypScrollVars, runVars, emailVars>>
  \/ DetailFinish
     /\ UNCHANGED <<excelVars, fpVars, qualifyVars, slmVars, recordVars, persistVars, acqVars, gmScrollVars, ypScrollVars, runVars, emailVars>>
  \/ DetailBarrier
     /\ UNCHANGED <<excelVars, fpVars, qualifyVars, slmVars, recordVars, persistVars, acqVars, gmScrollVars, ypScrollVars, runVars, emailVars>>
  \/ EmailExecute
     /\ UNCHANGED <<excelVars, fpVars, qualifyVars, slmVars, recordVars, persistVars, acqVars, gmScrollVars, ypScrollVars, runVars, emailVars>>
  \/ EmailFinish
     /\ UNCHANGED <<excelVars, fpVars, qualifyVars, slmVars, recordVars, persistVars, acqVars, gmScrollVars, ypScrollVars, runVars, emailVars>>
  \/ ClassifyStep
     /\ UNCHANGED <<excelVars, fpVars, qualifyVars, slmVars, recordVars, persistVars, acqVars, gmScrollVars, ypScrollVars, runVars, emailVars>>

EmailNext ==
  \/ StoreWebsiteEmail
     /\ UNCHANGED <<excelVars, fpVars, qualifyVars, slmVars, recordVars, persistVars, acqVars, gmScrollVars, ypScrollVars, runVars, poolVars>>
  \/ StoreYellowPagesEmail
     /\ UNCHANGED <<excelVars, fpVars, qualifyVars, slmVars, recordVars, persistVars, acqVars, gmScrollVars, ypScrollVars, runVars, poolVars>>

GmScrollLiveNext ==
  \/ CountNodesAgain
     /\ UNCHANGED <<excelVars, fpVars, qualifyVars, slmVars, recordVars, persistVars, acqVars, ypScrollVars, runVars, poolVars, emailVars>>
  \/ ScrollAndCompare
     /\ UNCHANGED <<excelVars, fpVars, qualifyVars, slmVars, recordVars, persistVars, acqVars, ypScrollVars, runVars, poolVars, emailVars>>

vars ==
  <<excelVars,
    fpVars,
    qualifyVars,
    slmVars,
    recordVars,
    persistVars,
    acqVars,
    gmScrollVars,
    ypScrollVars,
    runVars,
    poolVars,
    emailVars>>

ExcelStart ==
  /\ ExcelInit
  /\ FpIdle
  /\ QualifyIdle
  /\ SlmIdle
  /\ RecordIdle
  /\ PersistIdle
  /\ AcqIdle
  /\ GmScrollIdle
  /\ YpScrollIdle
  /\ RunIdle
  /\ PoolIdle
  /\ EmailIdle

SpecExcel == ExcelStart /\ [][ExcelNext]_vars

FpStart ==
  /\ FpInit
  /\ ExcelIdle
  /\ QualifyIdle
  /\ SlmIdle
  /\ RecordIdle
  /\ PersistIdle
  /\ AcqIdle
  /\ GmScrollIdle
  /\ YpScrollIdle
  /\ RunIdle
  /\ PoolIdle
  /\ EmailIdle

SpecFingerprint == FpStart /\ [][FpNext]_vars

QualifyStart ==
  /\ QualifyInit
  /\ ExcelIdle
  /\ FpIdle
  /\ SlmIdle
  /\ RecordIdle
  /\ PersistIdle
  /\ AcqIdle
  /\ GmScrollIdle
  /\ YpScrollIdle
  /\ RunIdle
  /\ PoolIdle
  /\ EmailIdle

SpecQualify == QualifyStart /\ [][QualifyNext]_vars

SlmStart ==
  /\ SlmInit
  /\ ExcelIdle
  /\ FpIdle
  /\ QualifyIdle
  /\ RecordIdle
  /\ PersistIdle
  /\ AcqIdle
  /\ GmScrollIdle
  /\ YpScrollIdle
  /\ RunIdle
  /\ PoolIdle
  /\ EmailIdle

SpecSLM == SlmStart /\ [][SlmNext]_vars

RecordStart ==
  /\ RecordInit
  /\ ExcelIdle
  /\ FpIdle
  /\ QualifyIdle
  /\ SlmIdle
  /\ PersistIdle
  /\ AcqIdle
  /\ GmScrollIdle
  /\ YpScrollIdle
  /\ RunIdle
  /\ PoolIdle
  /\ EmailIdle

SpecRecord == RecordStart /\ [][RecordNext]_vars

PersistStart ==
  /\ PersistInit
  /\ FpIdle
  /\ QualifyIdle
  /\ SlmIdle
  /\ RecordIdle
  /\ AcqIdle
  /\ GmScrollIdle
  /\ YpScrollIdle
  /\ RunIdle
  /\ PoolIdle
  /\ EmailIdle

SpecPersist == PersistStart /\ [][PersistNext]_vars

AcqStart ==
  /\ AcqInit
  /\ ExcelIdle
  /\ FpIdle
  /\ QualifyIdle
  /\ SlmIdle
  /\ RecordIdle
  /\ PersistIdle
  /\ GmScrollIdle
  /\ YpScrollIdle
  /\ RunIdle
  /\ PoolIdle
  /\ EmailIdle

SpecAcquire == AcqStart /\ [][AcqNext]_vars

GmScrollStart ==
  /\ GmScrollInit
  /\ ExcelIdle
  /\ FpIdle
  /\ QualifyIdle
  /\ SlmIdle
  /\ RecordIdle
  /\ PersistIdle
  /\ AcqIdle
  /\ YpScrollIdle
  /\ RunIdle
  /\ PoolIdle
  /\ EmailIdle

SpecScrollGoogleMaps == GmScrollStart /\ [][GmScrollNext]_vars

YpScrollStart ==
  /\ YpScrollInit
  /\ ExcelIdle
  /\ FpIdle
  /\ QualifyIdle
  /\ SlmIdle
  /\ RecordIdle
  /\ PersistIdle
  /\ AcqIdle
  /\ GmScrollIdle
  /\ RunIdle
  /\ PoolIdle
  /\ EmailIdle

SpecScrollYellowPages == YpScrollStart /\ [][YpScrollNext]_vars

RunStart ==
  /\ RunInit
  /\ ExcelIdle
  /\ FpIdle
  /\ QualifyIdle
  /\ SlmIdle
  /\ RecordIdle
  /\ PersistIdle
  /\ AcqIdle
  /\ GmScrollIdle
  /\ YpScrollIdle
  /\ PoolIdle
  /\ EmailIdle

SpecRun == RunStart /\ [][RunNext]_vars

PoolStart ==
  /\ PoolInit
  /\ ExcelIdle
  /\ FpIdle
  /\ QualifyIdle
  /\ SlmIdle
  /\ RecordIdle
  /\ PersistIdle
  /\ AcqIdle
  /\ GmScrollIdle
  /\ YpScrollIdle
  /\ RunIdle
  /\ EmailIdle

SpecPool == PoolStart /\ [][PoolNext]_vars

EmailStart ==
  /\ EmailInit
  /\ ExcelIdle
  /\ FpIdle
  /\ QualifyIdle
  /\ SlmIdle
  /\ RecordIdle
  /\ PersistIdle
  /\ AcqIdle
  /\ GmScrollIdle
  /\ YpScrollIdle
  /\ RunIdle
  /\ PoolIdle

SpecEmail == EmailStart /\ [][EmailNext]_vars

GmScrollLiveStart ==
  /\ GmScrollInit
  /\ ExcelIdle
  /\ FpIdle
  /\ QualifyIdle
  /\ SlmIdle
  /\ RecordIdle
  /\ PersistIdle
  /\ AcqIdle
  /\ YpScrollIdle
  /\ RunIdle
  /\ PoolIdle
  /\ EmailIdle

SpecScrollGoogleMapsLive == GmScrollLiveStart /\ [][GmScrollLiveNext]_vars /\ WF_vars(GmScrollLiveNext)

(***************************************************************************)
(* Claims.                                                                 *)
(***************************************************************************)
DistinctIds(rows) ==
  \A i, j \in 1..Len(rows) :
    i # j => createBusinessId(rows[i]) # createBusinessId(rows[j])

\* C1: a tabular merge that repeats the batch of the merge before it, against
\* the same file, appends no row: the file's rows are those left by the
\* first run.
C1_SecondRunAppendsNothing ==
  [][rerun' = "repeat" => sheet' = sheet /\ added' = 0]_vars

C1_Witness ==
  /\ rerun = "repeat"
  /\ Len(data) = 2
  /\ skipped = 2
  /\ Len(sheet) >= 2

\* C2: a tabular merge into a destination whose rows have pairwise distinct
\* fingerprints leaves rows with pairwise distinct fingerprints.
C2_DistinctIdsPreserved ==
  [][DistinctIds(SheetToJson(sheet)) => DistinctIds(SheetToJson(sheet'))]_vars

\* C3: the fingerprint of a record equals the fingerprint of every record
\* obtained from it by changes of letter case and of whitespace in its name,
\* phone and address.
C3_FingerprintStable == idA = idB

C3_Witness ==
  /\ edits = MaxEdits
  /\ recB.name # recA.name
  /\ recB.phone # recA.phone
  /\ idA = idB

\* C4: when the file exists, a merge keeps the previous rows, unchanged and in
\* order, followed by exactly the incoming rows whose fingerprint is not among
\* the previous rows' fingerprints, and appended + skipped = batch size.
C4_MergeAppendsNewOnly ==
  [][fileExists =>
       LET prev == SheetToJson(sheet)
           IsFresh(item) ==
             \A i \in 1..Len(prev) :
               createBusinessId(prev[i]) # createBusinessId(item)
           fresh == SelectSeq(data', IsFresh)
       IN /\ Len(sheet') = Len(sheet) + Len(fresh)
          /\ SubSeq(sheet', 1, Len(sheet)) = sheet
          /\ SubSeq(sheet', Len(sheet) + 1, Len(sheet')) = JsonToSheet(fresh)
          /\ added' = Len(fresh)
          /\ added' + skipped' = Len(data')]_vars

C4_Witness ==
  /\ fileExists
  /\ added = 1
  /\ skipped = 1
  /\ Len(sheet) = 3

\* C5: once a record's phone, website, address, description, email or
\* category is non-empty, no later stage replaces it with an empty or with
\* a different value.
C5_FirstWriterWins ==
  [][\A f \in {"phone", "website", "address", "description", "email", "category"} :
       (lead[f].t = "string" /\ lead[f].s # <<>>) => lead'[f] = lead[f]]_vars

Reports(errors, reason) == \E i \in 1..Len(errors) : errors[i] = reason

Missing(v) == v.t \in {"undefined", "null"} \/ v = S(<<>>)

NegativeRating(v) ==
  (v.t = "number" /\ v.n < 0) \/ v = S(<<"-", "1">>)

\* C6: validateData reports "Invalid name" exactly when the name is missing or
\* shorter than 2 characters; qualifyLead reports "No contact info" exactly
\* when email and phone are both empty and "Low rating" exactly when the
\* rating is negative; with a contact and no negative rating it reports nothing.
C6_ReasonsExact ==
  qPc = "done" =>
    /\ Reports(validateErrors, "Invalid name") <=>
         (Missing(qItem.name) \/ (qItem.name.t = "string" /\ Len(qItem.name.s) < 2))
    /\ Reports(qualifyErrors, "No contact info") <=>
         (Missing(qItem.email) /\ Missing(qItem.phone))
    /\ Reports(qualifyErrors, "Low rating") <=> NegativeRating(qItem.rating)
    /\ (~(Missing(qItem.email) /\ Missing(qItem.phone)) /\ ~NegativeRating(qItem.rating))
         => qualifyErrors = <<>>

C6_Witness ==
  /\ qPc = "done"
  /\ qItem.name = S(<<"A">>)
  /\ qItem.phone = S(<<"5">>)
  /\ qItem.rating = JNum(0 - 1)
  /\ validateErrors = <<"Invalid name">>
  /\ qualifyErrors = <<"Low rating">>

ValidName(v) == v.t = "string" /\ Len(v.s) >= 2

\* C7: no record whose name is missing or shorter than 2 characters is
\* written to either destination, the document store or the tabular file.
C7_OnlyValidNamesPersisted ==
  persistPc = "done" =>
    /\ \A i \in 1..Len(upserted) : ValidName(upserted[i].name)
    /\ \A i \in 1..Len(sheet) : ValidName(sheet[i].name)

\* C8: for every service outcome callSLM and enrichWithSLM complete without
\* raising, and the classification result has a boolean isRelevant and
\* string cleanCategory and summary.
C8_NeverRaisesTypedResult ==
  slmPc = "done" =>
    /\ ~response.threw
    /\ ~enriched.threw
    /\ response.value.isRelevant.t = "boolean"
    /\ response.value.cleanCategory.t = "string"
    /\ response.value.summary.t = "string"

\* a "{" with a "}" somewhere after it
HasBraceSpan(text) ==
  \E i, j \in 1..Len(text) : i < j /\ text[i] = "{" /\ text[j] = "}"

ClassifiedAs(obj, isRelevant, cleanCategory, summary) ==
  /\ obj.isRelevant = JBool(isRelevant)
  /\ obj.cleanCategory = S(cleanCategory)
  /\ obj.summary = S(summary)

TransportError(o) == o.kind \in {"networkError", "badBody"}

FirstChars(text, k) == [i \in 1..(IF Len(text) < k THEN Len(text) ELSE k) |-> text[i]]

\* C9 as stated: a text without brace-delimited JSON gives isRelevant = true,
\* "Uncategorized" and the first 500 characters of the text; a transport
\* error gives isRelevant = false and empty cleanCategory and summary.
C9_FallbackOfRawText ==
  slmPc = "done" =>
    /\ (outcome.kind = "body" /\ outcome.content.t = "string"
          /\ ~HasBraceSpan(outcome.content.s))
         => ClassifiedAs(response.value, TRUE, Uncategorized,
                         FirstChars(outcome.content.s, 500))
    /\ TransportError(outcome) => ClassifiedAs(response.value, FALSE, <<>>, <<>>)

\* result is the first k characters of what text holds between its leading
\* and its trailing run of whitespace
IsPrefixOfTrimmed(text, k, result) ==
  \E a \in 0..Len(text) :
    /\ \A i \in 1..a : IsWs(text[i])
    /\ a = Len(text) \/ NotWs(text[a + 1])
    /\ \E b \in 0..(Len(text) - a) :
         /\ \A i \in (Len(text) - b + 1)..Len(text) : IsWs(text[i])
         /\ b = Len(text) - a \/ NotWs(text[Len(text) - b])
         /\ result = FirstChars([i \in 1..(Len(text) - a - b) |-> text[a + i]], k)

\* C9 (amended): a non-empty text without brace-delimited JSON gives
\* isRelevant = true, "Uncategorized" and the first 500 characters of the
\* text with its leading and trailing whitespace removed; a transport error
\* gives isRelevant = false and empty cleanCategory and summary.
C9_FallbackOfTrimmedText ==
  slmPc = "done" =>
    /\ (outcome.kind = "body" /\ outcome.content.t = "string"
          /\ outcome.content.s # <<>> /\ ~HasBraceSpan(outcome.content.s))
         => /\ response.value.isRelevant = JBool(TRUE)
            /\ response.value.cleanCategory = S(Uncategorized)
            /\ response.value.summary.t = "string"
            /\ IsPrefixOfTrimmed(outcome.content.s, 500, response.value.summary.s)
    /\ TransportError(outcome) => ClassifiedAs(response.value, FALSE, <<>>, <<>>)

\* the text is cut at 500 characters, after whitespace was trimmed
C9_Witness ==
  /\ slmPc = "done"
  /\ outcome.kind = "body"
  /\ outcome.content.t = "string"
  /\ Len(outcome.content.s) = 503
  /\ IsWs(outcome.content.s[1])
  /\ Len(response.value.summary.s) = 500
  /\ response.value.cleanCategory = S(Uncategorized)

NotSuccessStatus(o) == o.kind = "body" /\ (o.status < 200 \/ o.status > 299)

\* C10: when the response holds no parsable JSON object or the call fails
\* (non-2xx status, network error), the classified record has
\* isRelevant = false, cleanCategory = the record's category and summary =
\* the record's description.
C10_FailureKeepsOriginals ==
  (/\ slmPc = "done"
   /\ \/ TransportError(outcome)
      \/ NotSuccessStatus(outcome)
      \/ (outcome.kind = "body" /\ outcome.content.t = "string"
            /\ ~HasBraceSpan(outcome.content.s)))
  => /\ enriched.value.isRelevant = JBool(FALSE)
     /\ enriched.value.cleanCategory = slmItem.category
     /\ enriched.value.summary = slmItem.description

\* C11: after classification, whatever object the service returned, the
\* record's originalCategory and originalDescription are the category and
\* the description the record had immediately before classification.
C11_OriginalsPreserved ==
  [][stage = "classify" =>
       /\ lead'.originalCategory = lead.category
       /\ lead'.originalDescription = lead.description]_vars

\* the service object carried category, originalCategory and description
C11_Witness ==
  /\ stage = "done"
  /\ lead.category = S(<<"Z">>)
  /\ lead.originalCategory = S(<<"C", "a", "f", "e">>)
  /\ lead.description = S(<<>>)

\* the record of the upsert a step has done
Upserted(results, idx) == results[idx]

DocsFor(docs, item) == {i \in 1..Len(docs) : Matches(docs[i], item)}

C13_DetailStageClearsDetailsNeeded ==
  [][stage = "detail" =>
       /\ (Truthy(lead.detailsNeeded) /\ Truthy(lead.detailUrl))
            => lead'.detailsNeeded = JBool(FALSE)
       /\ ~Truthy(lead.detailUrl) => lead' = lead]_vars

\* no two records of a source's sequence have the same name
NoNameTwice(rows) ==
  \A i, j \in 1..Len(rows) : i # j => rows[i].name # rows[j].name

FirstAt(names, name) ==
  CHOOSE i \in 1..Len(names) : names[i] = name /\ \A j \in 1..(i - 1) : names[j] # name

\* the records come in the order in which their names first occur
InFirstSeenOrder(rows, names) ==
  /\ \A i \in 1..Len(rows) : \E k \in 1..Len(names) : names[k] = rows[i].name
  /\ \A i, j \in 1..Len(rows) :
       i < j => FirstAt(names, rows[i].name) <= FirstAt(names, rows[j].name)

\* C14: for each source, the sequence extraction returns has no two records
\* with the same name, and its records are in the order in which their names
\* first occur in the captured input.
C14_DedupedInFirstSeenOrder ==
  acqPc = "collected" =>
    /\ NoNameTwice(gmTrace.returned)
    /\ InFirstSeenOrder(gmTrace.returned, gmTrace.captured)
    /\ NoNameTwice(ypTrace.returned)
    /\ InFirstSeenOrder(ypTrace.returned, ypTrace.captured)

\* C15: every record of either extraction path, for either source, has
\* source google_maps or yellow_pages, detailsNeeded = true and an empty
\* email.
C15_RecordsAreStamped ==
  \A i \in 1..Len(allResults) :
    /\ allResults[i].source \in {GoogleMaps, YellowPages}
    /\ allResults[i].detailsNeeded = JBool(TRUE)
    /\ allResults[i].email = S(<<>>)

\* the source's acquisition ended at the CAPTCHA: one navigation, no
\* scrolling, no extraction, no records
EndedAtCaptcha(trace) ==
  /\ trace.navigated
  /\ ~trace.afterCaptcha
  /\ ~trace.scrolled
  /\ ~trace.extracted
  /\ trace.returned = <<>>

\* C17: when a CAPTCHA marker is present after the search navigation of a
\* source, that source's acquisition ends with no records, no scrolling, no
\* extraction and no retry, and the other requested source still runs.
C17_CaptchaEndsOneSource ==
  acqPc = "collected" =>
    /\ gmTrace.captcha =>
         /\ EndedAtCaptcha(gmTrace)
         /\ useYellowPages => (ypTrace.navigated \/ ypTrace.failed)
    /\ ypTrace.captcha => EndedAtCaptcha(ypTrace)

\* C19: a captured response that is HTML-shaped is never passed to JSON
\* parsing and contributes no record; when no captured response yields a
\* record the structured path returns nothing and the markup path runs.
C19_HtmlNeverParsed ==
  /\ ~gmTrace.htmlParsed
  /\ ~gmTrace.htmlRecords
  /\ (acqPc \in {"yp", "collected"} /\ gmTrace.scrolled /\ apiResults = <<>>)
       => gmTrace.fallback

\* the count taken in cycle k, 0 before the first cycle
CountAt(k) == IF k = 0 THEN 0 ELSE counts[k]

\* cycle k left the count as the cycle before it had found it
Unchanged(k) == CountAt(k) = CountAt(k - 1)

ReachedTarget == Len(counts) > 0 /\ counts[Len(counts)] >= scrollMax

ThreeUnchanged ==
  /\ Len(counts) >= 3
  /\ \A k \in (Len(counts) - 2)..Len(counts) : Unchanged(k)

\* C18: autoScrollGoogleMaps stops exactly when the counted result nodes
\* reach the target or three consecutive cycles leave the count unchanged;
\* it stops on the plateau with the plateau's count found.
C18_StopsAtTargetOrPlateau ==
  /\ gmScrollPc = "reached" <=> ReachedTarget
  /\ gmScrollPc = "noMore" => (~ReachedTarget /\ ThreeUnchanged)
  /\ (gmScrollPc = "count" /\ Len(counts) > 0) =>
       (~ReachedTarget /\ ~ThreeUnchanged)
  /\ gmScrollPc = "noMore" => currentCount = counts[Len(counts)]

C18_Witness ==
  /\ scrollMax = 50
  /\ counts = <<30, 30, 30, 30>>
  /\ gmScrollPc = "noMore"
  /\ currentCount = 30

\* C20: autoScrollYellowPages stops with 'scroll container unresponsive' only
\* after 3 cycles in which neither the scroll nor a click succeeded, and with
\* 'no more results loading' only after 8 consecutive unchanged cycles.
C20_StopReasonsCountCycles ==
  /\ stopReason = "scroll container unresponsive" =>
       unresponsiveCycles >= UnresponsiveLimit
  /\ stopReason = "no more results loading" => decidedRun >= NoChangeLimit

\* C16: whatever fails in detail enrichment, email resolution,
\* classification, the MongoDB connection or an upsert, the run goes on and
\* ends with the tabular merge done and every acquired record classified.
C16_RunSurvivesStageFailures ==
  /\ runPc # "fatal"
  /\ runPc = "done" => (merged /\ classified = runLeads)

\* C21: autoScrollYellowPages never runs more than 50 counting cycles.
C21_AtMostFiftyCycles == totalScrolls <= maxScrollAttempts

\* C22: after the result count was unchanged for 8 cycles there is one final
\* burst and then the resolution: no counting cycle runs in between, no
\* second burst starts.
C22_OneBurstThenResolve == bursts > 0 => (overlap = 0 /\ bursts = 1)

\* C23: scrapeYellowPages requests page n+1 only after page n was visited
\* and showed a next-page control.
C23_NextPageOnlyAfterControl == ~ypTrace.requestedUnannounced

\* C24: in a detail task a failed navigation is attempted once more after a
\* delay, navigation is attempted at most 2 times, and when both attempts
\* fail the record's fields are as they were before the task.
C24_NavigationRetriedOnce ==
  [][stage = "detail" =>
       /\ nav'.calls <= GotoAttempts
       /\ nav'.failed >= 1 => (nav'.calls = GotoAttempts /\ nav'.sleeps >= 1)
       /\ nav'.failed = GotoAttempts => lead' = lead]_vars

\* C25: at every instant at most 2 detail tasks and at most 3 email tasks
\* are in flight, and no record is operated on by more than one task.
C25_BoundedTasksInFlight ==
  /\ Cardinality(Running(detailTasks)) <= DetailConcurrency
  /\ Cardinality(Running(emailTasks)) <= EmailConcurrency
  /\ Running(detailTasks) \cap Running(emailTasks) = {}

C25_Witness ==
  /\ taskCount = 3
  /\ Running(detailTasks) = {2, 3}
  /\ completionOrder = <<1>>

\* C26: no email or classification step starts before every detail task has
\* completed, and whatever the completion order the records are in the same
\* positions after the stage as before it.
C26_BarrierKeepsPositions ==
  /\ (poolPc \in {"email", "classify", "done"} \/ Running(emailTasks) # {}) =>
       /\ \A i \in 1..taskCount : detailTasks[i] = "done"
       /\ poolResults = [i \in 1..taskCount |-> i]
  /\ poolPc \in {"detail", "fatal"} =>
       /\ \A i \in 1..taskCount : emailTasks[i] = "waiting"
       /\ poolIdx = 1

C26_Witness ==
  /\ poolPc = "email"
  /\ completionOrder = <<2, 1, 3>>
  /\ poolResults = <<1, 2, 3>>
  /\ Running(emailTasks) = {1}

\* the placeholder domains: example.com, domain.com and test domains
Placeholder(email) ==
  LET low == LowerEmail(email)
  IN \/ IncludesPiece(low, "example.com")
     \/ IncludesPiece(low, "domain.com")
     \/ IncludesAt(low, "test")

Candidates ==
  {LowerEmail(bodyEmails[i]) : i \in 1..Len(bodyEmails)}
  \cup {LowerEmail(mailtoEmails[i]) : i \in 1..Len(mailtoEmails)}

\* C27: an email stored by email extraction matches no placeholder pattern,
\* and the result is null exactly when no candidate is acceptable.
C27_NoPlaceholderEmailStored ==
  emailPc \in {"website", "yellowPages"} =>
    IF \A c \in Candidates : Placeholder(c)
    THEN storedEmail = JNull
    ELSE /\ storedEmail # JNull
         /\ ~Placeholder(storedEmail.s)
         /\ LowerEmail(storedEmail.s) \in Candidates

\* the spans of text that are a balanced, valid JSON object
ObjectSpans(text) ==
  {p \in (1..Len(text)) \X (1..Len(text)) :
     /\ p[1] < p[2]
     /\ text[p[1]] = "{"
     /\ text[p[2]] = "}"
     /\ JsonParse(SubSeq(text, p[1], p[2])).ok}

FirstSpan(text) ==
  CHOOSE p \in ObjectSpans(text) :
    \A q \in ObjectSpans(text) : p[1] < q[1] \/ (p[1] = q[1] /\ p[2] <= q[2])

\* C28: for a service text that holds a balanced, valid JSON object, callSLM
\* returns the first such object, whatever braces or objects follow it.
C28_FirstObjectReturned ==
  (/\ slmPc \in {"called", "done"}
   /\ outcome.kind = "body"
   /\ outcome.content.t = "string"
   /\ ObjectSpans(outcome.content.s) # {})
  => LET text == outcome.content.s
         p == FirstSpan(text)
     IN response = Returned(JsonParse(SubSeq(text, p[1], p[2])).obj)

\* C29: autoScrollGoogleMaps terminates for every sequence of observed
\* counts, also for counts that rise and fall without reaching the target.
C29_ScrollTerminates == <>(gmScrollPc \in {"reached", "noMore"})

\* C30: each source's acquisition returns at most maxResults records.
C30_AtMostMaxResults ==
  /\ Len(gmTrace.returned) <= maxResults
  /\ Len(ypTrace.returned) <= maxResults

====
